---- MODULE Spec2Model ----
(***************************************************************************)
(* Balance aggregation and valuation core of the exchange balance monitor  *)
(* (ws.js: monitorBalances, the subscribe / polling loops, the two         *)
(* normalization passes processBalanceData and compileAndUpdateBalances,   *)
(* and the alternate price discovery), with the start loop of mon.js.      *)
(*                                                                         *)
(* Numbers.  JavaScript numbers are modelled as exact rationals plus the   *)
(* IEEE specials the code can produce (Infinity from 1/0, NaN from         *)
(* 1/undefined) and the value undefined; floating-point rounding is not    *)
(* modelled.  Every number is a record [k, n, d] so that any two of them   *)
(* can be compared.                                                        *)
(*                                                                         *)
(* Market symbols are strings built as the code builds them (base "/"     *)
(* quote); a candidate pair carries the component it starts with, which is *)
(* what pair.startsWith(x + "/") tests for symbols without a "/".         *)
(***************************************************************************)
EXTENDS Integers, Sequences, FiniteSets, TLC

----------------------------------------------------------------------------
(* JavaScript number layer *)

RECURSIVE Gcd(_, _)
Gcd(a, b) == IF b = 0 THEN a ELSE Gcd(b, a % b)

AbsInt(i) == IF i < 0 THEN -i ELSE i

\* the rational n/d (d # 0) in lowest terms with a positive denominator
Num(n, d) ==
    LET s == IF d < 0 THEN -1 ELSE 1
        g == Gcd(AbsInt(n), AbsInt(d))
    IN  [k |-> "num", n |-> (s * n) \div g, d |-> (s * d) \div g]

Zero == Num(0, 1)
One == Num(1, 1)
PosInf == [k |-> "inf", n |-> 1, d |-> 0]
NegInf == [k |-> "inf", n |-> -1, d |-> 0]
NaN == [k |-> "nan", n |-> 0, d |-> 0]
Undefined == [k |-> "undef", n |-> 0, d |-> 0]

IsFinite(x) == x.k = "num"

Sign(x) == IF x.n < 0 THEN -1 ELSE IF x.n > 0 THEN 1 ELSE 0

\* ToBoolean of a number or undefined: 0, NaN and undefined are falsy
Truthy(x) == x.k = "inf" \/ (x.k = "num" /\ x.n # 0)

\* a || b
JsOr(a, b) == IF Truthy(a) THEN a ELSE b

\* 1 / x
Recip(x) ==
    CASE x.k = "num" /\ x.n # 0 -> Num(x.d, x.n)
      [] x.k = "num" /\ x.n = 0 -> PosInf
      [] x.k = "inf" -> Zero
      [] OTHER -> NaN

\* a * b
Mul(a, b) ==
    CASE a.k = "num" /\ b.k = "num" -> Num(a.n * b.n, a.d * b.d)
      [] a.k \in {"nan", "undef"} \/ b.k \in {"nan", "undef"} -> NaN
      [] Sign(a) * Sign(b) > 0 -> PosInf
      [] Sign(a) * Sign(b) < 0 -> NegInf
      [] OTHER -> NaN

\* a + b
Add(a, b) ==
    CASE a.k = "num" /\ b.k = "num" -> Num(a.n * b.d + b.n * a.d, a.d * b.d)
      [] a.k \in {"nan", "undef"} \/ b.k \in {"nan", "undef"} -> NaN
      [] a.k = "inf" /\ b.k = "inf" -> IF a.n = b.n THEN a ELSE NaN
      [] a.k = "inf" -> a
      [] OTHER -> b

\* Math.abs(x) < t and Math.abs(x) > t for a finite positive t
AbsLt(x, t) == x.k = "num" /\ AbsInt(x.n) * t.d < t.n * x.d
AbsGt(x, t) == x.k = "inf" \/ (x.k = "num" /\ AbsInt(x.n) * t.d > t.n * x.d)

\* the thresholds of the code: 1e-6 (cache) and 0.01 (dust)
CacheThresholdDen == 1000000
DustDen == 100
CacheThreshold == Num(1, CacheThresholdDen)

\* a dust threshold of 0.001
DustPerMille == Num(1, 10 * DustDen)

Dust == Num(1, DustDen)

----------------------------------------------------------------------------
(* JavaScript objects used as dictionaries are functions on their key set: *)
(* nothing in the modelled code depends on the order of the keys.          *)

EmptyObj == << >>

Has(o, key) == key \in DOMAIN o

Put(o, key, v) == [x \in DOMAIN o \cup {key} |-> IF x = key THEN v ELSE o[x]]

Delete(o, key) == [x \in DOMAIN o \ {key} |-> o[x]]

----------------------------------------------------------------------------
(* Balance cache: the loop at the head of both normalization passes *)

\* a test that keeps every non-zero amount
KeepsAnyNonZero(amount) == Truthy(amount)

\* amount && Math.abs(amount) > 1e-6
KeepsAmount(amount) == Truthy(amount) /\ AbsGt(amount, CacheThreshold)

\* every currency written to the cache by the snapshot
CacheWrites(total) == {c \in DOMAIN total : KeepsAmount(total[c])}

\* every cached currency the snapshot deletes: reported, not kept, and cached
CacheDeletes(balanceCache, total) ==
    {c \in DOMAIN total :
        ~KeepsAmount(total[c]) /\ Has(balanceCache, c) /\ Truthy(balanceCache[c])}

\* an update that also drops every cached currency the snapshot does not mention
UpdateCacheDroppingAbsent(balanceCache, total) ==
    [c \in CacheWrites(total) |-> total[c]]

\* an update that never overwrites the amount of a currency it already holds
UpdateCacheKeepingFirst(balanceCache, total) ==
    [c \in (DOMAIN balanceCache \ CacheDeletes(balanceCache, total))
            \cup CacheWrites(total) |->
        IF c \in DOMAIN balanceCache THEN balanceCache[c] ELSE total[c]]

\* for (const [currency, amount] of Object.entries(totalBalances)) { ... }
UpdateCache(balanceCache, total) ==
    [c \in (DOMAIN balanceCache \ CacheDeletes(balanceCache, total))
            \cup CacheWrites(total) |->
        IF c \in CacheWrites(total) THEN total[c] ELSE balanceCache[c]]

----------------------------------------------------------------------------
(* Price resolution *)

Null == [k |-> "null", n |-> 0, d |-> 0]

\* the market symbol `${x}/${y}` with the component it starts with
Pair(x, y) == [id |-> x \o "/" \o y, lead |-> x]

\* a candidate list that tries the USD and USDT pairs before the direct ones
PossiblePairsUsdFirst(currency, baseCurrency) ==
    << Pair(currency, "USD"), Pair("USD", currency),
       Pair(currency, "USDT"), Pair("USDT", currency),
       Pair(currency, baseCurrency), Pair(baseCurrency, currency) >>

PossiblePairs(currency, baseCurrency) ==
    << Pair(currency, baseCurrency), Pair(baseCurrency, currency),
       Pair(currency, "USD"), Pair("USD", currency),
       Pair(currency, "USDT"), Pair("USDT", currency) >>

\* index of the first candidate that is a market, 0 when there is none
FirstMarket(markets, pairs) ==
    LET hits == {i \in 1..Len(pairs) : pairs[i].id \in markets}
    IN  IF hits = {} THEN 0 ELSE CHOOSE i \in hits : \A j \in hits : i <= j

\* a test that inverts only the pairs led by the valuation currency
InvertPriceBaseOnly(pair, baseCurrency) == pair.lead = baseCurrency

\* pair.startsWith(`${baseCurrency}/`) || pair.startsWith('USD/') || pair.startsWith('USDT/')
InvertPrice(pair, baseCurrency) ==
    pair.lead = baseCurrency \/ pair.lead = "USD" \/ pair.lead = "USDT"

\* ticker.last || ticker.close
PriceValue(ticker) == JsOr(ticker.last, ticker.close)

\* the price computed from a fetched ticker of a matched pair
TickerPrice(ticker, pair, baseCurrency) ==
    IF InvertPrice(pair, baseCurrency)
    THEN Recip(PriceValue(ticker))
    ELSE PriceValue(ticker)

AlternativeExchanges == <<"binance", "kraken", "coinbasepro">>

(* fetchPriceFromAlternativeExchange.  alts[i] is what alternate i does    *)
(* when asked: [throws] (the constructor or loadMarkets throws), its       *)
(* [markets], and its [ticker] answer ([throws, last, close]) for the      *)
(* matched pair.  A throw anywhere moves on to the next alternate; the     *)
(* first alternate with a pair and a ticker returns, whatever the price.   *)
RECURSIVE AltPriceFrom(_, _, _, _)
AltPriceFrom(i, currency, baseCurrency, alts) ==
    IF i > Len(AlternativeExchanges) THEN Null
    ELSE LET alt == alts[i]
             pairs == PossiblePairs(currency, baseCurrency)
             m == FirstMarket(alt.markets, pairs)
         IN  IF alt.throws \/ m = 0 \/ alt.ticker.throws
             THEN AltPriceFrom(i + 1, currency, baseCurrency, alts)
             ELSE TickerPrice(alt.ticker, pairs[m], baseCurrency)

FetchPriceFromAlternativeExchange(currency, baseCurrency, alts) ==
    AltPriceFrom(1, currency, baseCurrency, alts)

(* The price of one cached currency other than the valuation currency:     *)
(* Null stands for the `continue` taken when price === null.               *)
ResolvePrice(currency, baseCurrency, markets, ticker, alts) ==
    LET pairs == PossiblePairs(currency, baseCurrency)
        m == FirstMarket(markets, pairs)
    IN  IF m = 0 \/ ticker.throws
        THEN FetchPriceFromAlternativeExchange(currency, baseCurrency, alts)
        ELSE TickerPrice(ticker, pairs[m], baseCurrency)

----------------------------------------------------------------------------
(* One normalization pass (processBalanceData and compileAndUpdateBalances *)
(* run the same steps).  The answers of the network calls of one pass are  *)
(* its environment env:                                                    *)
(*   env.ticker[c]  the primary exchange's ticker answer for currency c    *)
(*   env.alts[c]    the alternates' answers for currency c                 *)
(*   env.positions  [throws, list] of fetchPositions; each position holds  *)
(*                  [symbol, contracts, unrealizedPnl, tickerThrows]       *)

SpotAsset(currency, amount, baseValue) ==
    [symbol |-> currency, amount |-> amount, baseValue |-> baseValue, type |-> "spot"]

FuturesAsset(position, UPNL) ==
    [symbol |-> position.symbol, amount |-> position.contracts,
     baseValue |-> UPNL, type |-> "futures"]

\* a test that sends every currency through market lookup
NeedsPriceAlways(currency, baseCurrency) == currency = currency

\* if (currency !== baseCurrency): the currency goes through market lookup
NeedsPrice(currency, baseCurrency) == currency # baseCurrency

\* a loop body that keeps baseValue = amount where the code takes `continue`
SpotEntryWithoutContinue(currency, amount, baseCurrency, markets, ticker, alts) ==
    LET probed == NeedsPrice(currency, baseCurrency)
        price == IF probed
                 THEN ResolvePrice(currency, baseCurrency, markets, ticker, alts)
                 ELSE One
        baseValue == IF probed /\ Truthy(price) THEN Mul(amount, price) ELSE amount
    IN  [probed |-> probed,
         publish |-> ~AbsLt(baseValue, Dust),
         asset |-> SpotAsset(currency, amount, baseValue)]

(* The body of the loop over the cache for one currency: whether it is     *)
(* published, the asset, and whether markets were probed for it.           *)
SpotEntry(currency, amount, baseCurrency, markets, ticker, alts) ==
    LET probed == NeedsPrice(currency, baseCurrency)
        price == IF probed
                 THEN ResolvePrice(currency, baseCurrency, markets, ticker, alts)
                 ELSE One
        baseValue == IF probed THEN Mul(amount, price) ELSE amount
    IN  [probed |-> probed,
         publish |-> (~probed \/ Truthy(price)) /\ ~AbsLt(baseValue, Dust),
         asset |-> SpotAsset(currency, amount, baseValue)]

\* a loop over the cache that a currency without a price ends with nothing published
SpotAssetsAbortingOnFailure(balanceCache, baseCurrency, markets, env) ==
    LET entries == [c \in DOMAIN balanceCache |->
                       SpotEntry(c, balanceCache[c], baseCurrency, markets,
                                 env.ticker[c], env.alts[c])]
    IN  IF \E x \in DOMAIN balanceCache : entries[x].probed /\ ~entries[x].publish
        THEN EmptyObj
        ELSE [c \in DOMAIN balanceCache |-> entries[c].asset]

\* for (const [currency, amount] of Object.entries(balanceCache)) { ... }
SpotAssets(balanceCache, baseCurrency, markets, env) ==
    LET entries == [c \in DOMAIN balanceCache |->
                       SpotEntry(c, balanceCache[c], baseCurrency, markets,
                                 env.ticker[c], env.alts[c])]
    IN  [c \in {x \in DOMAIN balanceCache : entries[x].publish} |-> entries[c].asset]

\* the currencies of the cache for which markets are probed in a pass
Probed(balanceCache, baseCurrency) ==
    {c \in DOMAIN balanceCache : NeedsPrice(c, baseCurrency)}

\* exchange.has['fetchPositions'] && exchange.options?.defaultType === 'swap'
IncludesPositions(hasFetchPositions, defaultType) ==
    hasFetchPositions /\ defaultType = "swap"

(* for (const position of positions) { ... } inside the try: a ticker      *)
(* fetch that throws leaves the loop with the assets recorded so far.      *)
RECURSIVE AddPositions(_, _, _, _)
AddPositions(newAssets, list, i, markets) ==
    IF i > Len(list) THEN newAssets
    ELSE LET position == list[i]
             UPNL == JsOr(position.unrealizedPnl, Zero)
         IN  IF position.contracts = Zero \/ position.symbol \notin markets
             THEN AddPositions(newAssets, list, i + 1, markets)
             ELSE IF position.tickerThrows THEN newAssets
             ELSE IF AbsLt(UPNL, Dust)
             THEN AddPositions(newAssets, list, i + 1, markets)
             ELSE AddPositions(Put(newAssets, position.symbol, FuturesAsset(position, UPNL)),
                               list, i + 1, markets)

(* Whether pass function fn fetches positions.  The repository holds two   *)
(* revisions of ws.js: in the current one both functions test             *)
(* IncludesPositions; in the earlier one processBalanceData fetches them   *)
(* whenever the exchange can, and compileAndUpdateBalances never does.     *)
FetchesPositions(revision, fn, exchange) ==
    CASE revision = "current" ->
            IncludesPositions(exchange.hasFetchPositions, exchange.defaultType)
      [] fn = "processBalanceData" -> exchange.hasFetchPositions
      [] OTHER -> FALSE

\* the asset mapping a pass computes from the cache and the positions
NewAssets(revision, fn, balanceCache, baseCurrency, exchange, env) ==
    LET spot == SpotAssets(balanceCache, baseCurrency, exchange.markets, env)
    IN  IF FetchesPositions(revision, fn, exchange) /\ ~env.positions.throws
        THEN AddPositions(spot, env.positions.list, 1, exchange.markets)
        ELSE spot

\* Object.values(newAssets).reduce((acc, curr) => acc + curr.baseValue, 0)
RECURSIVE SumBaseValues(_, _)
SumBaseValues(newAssets, keys) ==
    IF keys = {} THEN Zero
    ELSE LET key == CHOOSE x \in keys : TRUE
         IN  Add(SumBaseValues(newAssets, keys \ {key}), newAssets[key].baseValue)

Total(newAssets) == SumBaseValues(newAssets, DOMAIN newAssets)

\* spotData.total[baseCurrency] || 0, 0 when the fetch throws
SpotBalance(answer) == IF answer.throws THEN Zero ELSE JsOr(answer.value, Zero)

\* fetchGateioEarnBalance for gateio (0 on failure), 0 for any other exchange
EarnBalance(exchangeId, answer) ==
    IF exchangeId = "gateio" /\ ~answer.throws THEN answer.value ELSE Zero

----------------------------------------------------------------------------
(* Configuration: keys.json, and what ccxt knows of each exchange.         *)
(* mon.js groups the accounts by name n and starts them group by group.    *)

Conns == {"X", "A", "B"}

\* the order in which the start loop of mon.js calls monitorBalances
StartOrder == <<"X", "A", "B">>

Account(c) ==
    CASE c = "A" -> [n |-> "Main Fund", e |-> "gateio", baseCurrency |-> "USD",
                     defaultType |-> "swap"]
      [] c = "B" -> [n |-> "Main Fund", e |-> "kraken", baseCurrency |-> "EUR",
                     defaultType |-> "spot"]
      [] OTHER   -> [n |-> "Lost", e |-> "nosuch", baseCurrency |-> "USD",
                     defaultType |-> "spot"]

GroupNames == {Account(c).n : c \in Conns}

\* the exchange identifiers ccxt has a class for
CcxtClasses == {"gateio", "kraken"}

\* account.n.endsWith(' Fund'), over the configured names
EndsWithFund(n) == n \in {"Main Fund"}

\* the instruments of the two futures positions
PerpETH == "ETH/USDT:USDT"
PerpXRP == "XRP/USDT:USDT"

\* what an exchange class offers, and its loaded markets
ExchangeClass(e) ==
    IF e = "gateio"
    THEN [id |-> e, hasWatchBalance |-> TRUE, hasFetchPositions |-> TRUE,
          markets |-> {"USD/ETH", PerpETH}]
    ELSE [id |-> e, hasWatchBalance |-> FALSE, hasFetchPositions |-> TRUE,
          markets |-> {}]

\* exchange.isFundAccount
IsFundAccount(account) == EndsWithFund(account.n) /\ account.defaultType = "swap"

\* the exchange object monitorBalances builds for a connection
ExchangeOf(c) ==
    LET cls == ExchangeClass(Account(c).e)
    IN  [id |-> cls.id, hasWatchBalance |-> cls.hasWatchBalance,
         hasFetchPositions |-> cls.hasFetchPositions, markets |-> cls.markets,
         defaultType |-> Account(c).defaultType,
         isFundAccount |-> IsFundAccount(Account(c))]

----------------------------------------------------------------------------
(* The answers the network may give.                                       *)

Ticker(last, close) == [throws |-> FALSE, last |-> last, close |-> close]
TickerThrows == [throws |-> TRUE, last |-> Undefined, close |-> Undefined]

AltThrows == [throws |-> TRUE, markets |-> {}, ticker |-> TickerThrows]
Alt(markets, ticker) == [throws |-> FALSE, markets |-> markets, ticker |-> ticker]

Position(symbol, contracts, unrealizedPnl, tickerThrows) ==
    [symbol |-> symbol, contracts |-> contracts, unrealizedPnl |-> unrealizedPnl,
     tickerThrows |-> tickerThrows]

PositionsThrow == [throws |-> TRUE, list |-> << >>]
Positions(list) == [throws |-> FALSE, list |-> list]

Value(v) == [throws |-> FALSE, value |-> v]
ValueThrows == [throws |-> TRUE, value |-> Undefined]

\* a resolved balance fetch or push: a balance structure, undefined, or a throw
Balance(total) == [kind |-> "data", total |-> total]
BalanceUndefined == [kind |-> "undefined", total |-> EmptyObj]
BalanceThrows == [kind |-> "throws", total |-> EmptyObj]

Currencies == {"USD", "ETH", "BTC"}

\* the amounts each account may report for each of its currencies
Reports(c) ==
    CASE c = "A" -> [USD |-> {Num(100, 1)}, ETH |-> {Zero, Num(2, 1)}]
      [] c = "B" -> [BTC |-> {Num(1, 2000000), Num(1, 2)}]
      [] OTHER   -> [USD |-> {Num(100, 1)}]

\* every mapping from some of the currencies in reports to a reported amount
Totals(reports) ==
    UNION {{f \in [S -> UNION {reports[k] : k \in S}] : \A k \in S : f[k] \in reports[k]}
           : S \in SUBSET DOMAIN reports}

BalanceAnswersOf(c) ==
    {Balance(t) : t \in Totals(Reports(c))} \cup {BalanceUndefined, BalanceThrows}

\* the answers a balance fetch or push of each connection may give
BalanceAnswers == [c \in Conns |-> BalanceAnswersOf(c)]

TickerAnswers ==
    {TickerThrows, Ticker(Num(1, 2500), Undefined), Ticker(Zero, Zero)}

AltAnswers ==
    { <<AltThrows, AltThrows, AltThrows>>,
      <<Alt({"ETH/USDT", "BTC/USDT"}, Ticker(Num(2000, 1), Undefined)),
        AltThrows, AltThrows>> }

PositionAnswers ==
    { PositionsThrow,
      Positions(<<Position(PerpETH, Num(10, 1), Num(-5, 1), FALSE)>>) }

SpotAnswers == {ValueThrows, Value(Num(50, 1))}
EarnAnswers == {ValueThrows, Value(Num(7, 1))}

NoAlts == <<AltThrows, AltThrows, AltThrows>>

\* the environment of one pass with the same answers for every currency
Env(ticker, alts, positions) ==
    [ticker |-> [c \in Currencies |-> ticker], alts |-> [c \in Currencies |-> alts],
     positions |-> positions]

(* The answers a pass over balanceCache can meet: an answer is drawn only  *)
(* for a call the pass makes (a ticker when some probed currency has a     *)
(* market, the alternates when one has none or its ticker throws, the      *)
(* positions when they are fetched).                                       *)
Listed(balanceCache, baseCurrency, exchange) ==
    {c \in Probed(balanceCache, baseCurrency) :
        FirstMarket(exchange.markets, PossiblePairs(c, baseCurrency)) # 0}

TickersMet(balanceCache, baseCurrency, exchange) ==
    IF Listed(balanceCache, baseCurrency, exchange) # {}
    THEN TickerAnswers ELSE {TickerThrows}

AltsMet(balanceCache, baseCurrency, exchange, ticker) ==
    IF Probed(balanceCache, baseCurrency) # Listed(balanceCache, baseCurrency, exchange)
       \/ (Listed(balanceCache, baseCurrency, exchange) # {} /\ ticker.throws)
    THEN AltAnswers ELSE {NoAlts}

PositionsMet(revision, fn, exchange) ==
    IF FetchesPositions(revision, fn, exchange)
    THEN PositionAnswers ELSE {PositionsThrow}

----------------------------------------------------------------------------
(* State *)

VARIABLES
    balances,      \* the Global Snapshot: group name -> group record
    balanceCache,  \* connection -> its balance cache
    pc,            \* connection -> where its loop is suspended
    loop,          \* connection -> the loop it runs: none, watchBalance, monitor
    subErr,        \* connection -> an error was raised inside the subscribe loop
    wrote,         \* connection -> it has written the result of a pass
    callbacks,     \* connection -> callback() invocations since its last write
    passObs,       \* connection -> its pass in progress: the kind of balance
                   \* answer it runs on, and whether it changed the group record
    \* one connection taken alone, pass after pass
    pMarkets,      \* the markets of its exchange
    pDeleted,      \* the currencies its last pass deleted from the cache
    pCache,        \* its balance cache
    pGroup,        \* its group's record
    pSeen,         \* the total of the snapshot of its last pass
    pProbed,       \* the currencies markets were probed for in its last pass
    \* one call of a function of the pass, taken alone
    call,          \* the function and its arguments
    result,        \* what it returned
    \* the REST variant and the output modules, each taken alone
    rest,          \* rest.js: the start loop, the interval passes in flight, balancesObj
    tg,            \* the TelegramModule object and its asynchronous calls in flight
    stream         \* the frequency-aligned Sheets writer and its calls in flight

obsVars == <<callbacks, passObs>>
loopVars == <<balances, balanceCache, pc, loop, subErr, wrote, callbacks, passObs>>
passVars == <<pMarkets, pDeleted, pCache, pGroup, pSeen, pProbed>>
callVars == <<call, result>>
moduleVars == <<rest, tg, stream>>
vars == <<balances, balanceCache, pc, loop, subErr, wrote, callbacks, passObs,
          pMarkets, pDeleted, pCache, pGroup, pSeen, pProbed, call, result,
          rest, tg, stream>>

\* the REST variant and the output modules are not running
ModulesIdle == rest = "off" /\ tg = "off" /\ stream = "off"

\* no pass in progress; a pass in progress on a balance answer of some kind
NoPass == [answer |-> "none", changed |-> FALSE, fundFailed |-> FALSE]
PassOn(kind, changed) == [answer |-> kind, changed |-> changed, fundFailed |-> FALSE]

Started(c) == pc[c] # "new"
AllStarted == \A c \in Conns : Started(c)

LoopInit ==
    /\ balances = EmptyObj
    /\ balanceCache = [c \in Conns |-> EmptyObj]
    /\ pc = [c \in Conns |-> "new"]
    /\ loop = [c \in Conns |-> "none"]
    /\ subErr = [c \in Conns |-> FALSE]
    /\ wrote = [c \in Conns |-> FALSE]
    /\ callbacks = [c \in Conns |-> 0]
    /\ passObs = [c \in Conns |-> NoPass]

----------------------------------------------------------------------------
(* monitorBalances and the two loops.                                      *)
(* A step runs a loop from one suspension to the next one at which shared  *)
(* state can differ: the ticker and position awaits inside a pass touch    *)
(* only the pass's own newAssets, so a pass is one step from the resolved  *)
(* balance to the write of balances and total.  pc "poll" is the monitor   *)
(* loop awaiting fetchCompleteBalance, pc "sleep" the same loop awaiting   *)
(* sleep(5000).                                                            *)

\* the revision of ws.js the connections run
Revision == "current"

\* the record created for a group on first sight
GroupRecord(groupName, baseCurrency) ==
    [exchange |-> groupName, balances |-> EmptyObj, baseCurrency |-> baseCurrency,
     total |-> Zero, spotBalance |-> Undefined, earnBalance |-> Undefined]

\* an initialization that replaces the record of a group that already has one
EnsureGroupOverwriting(balancesObj, account) ==
    Put(balancesObj, account.n, GroupRecord(account.n, account.baseCurrency))

\* if (!balancesObj[groupName]) balancesObj[groupName] = {...}
EnsureGroup(balancesObj, account) ==
    IF Has(balancesObj, account.n) THEN balancesObj
    ELSE Put(balancesObj, account.n, GroupRecord(account.n, account.baseCurrency))

\* startPollingOrSubscribe: the loop a connection starts with
InitialLoop(exchange) == IF exchange.hasWatchBalance THEN "watchBalance" ELSE "monitor"

\* a catch that subscribes again
LoopResubscribes == "watchBalance"

\* the catch of the subscribe loop calls startPolling
LoopAfterWatchError == "monitor"

\* the await a loop suspends at when it (re)starts an iteration
AwaitOf(loopName) == IF loopName = "watchBalance" THEN "watch" ELSE "poll"

\* a write that adds the new sum to the total the record already holds
WriteGroupRunningTotal(record, newAssets) ==
    [record EXCEPT !.balances = newAssets, !.total = Add(record.total, Total(newAssets))]

\* a write that merges the new assets into the published ones
WriteGroupMerging(record, newAssets) ==
    LET merged == [k \in DOMAIN record.balances \cup DOMAIN newAssets |->
                      IF k \in DOMAIN newAssets THEN newAssets[k] ELSE record.balances[k]]
    IN  [record EXCEPT !.balances = merged, !.total = Total(merged)]

\* balancesObj[groupName].balances = newAssets; .total = reduce(...)
WriteGroup(record, newAssets) ==
    [record EXCEPT !.balances = newAssets, !.total = Total(newAssets)]

\* a fund part that attaches the spot balance alone
WriteFundSpotOnly(record, spotBalance, earnBalance) ==
    [record EXCEPT !.spotBalance = spotBalance]

\* balancesObj[groupName].spotBalance = ...; .earnBalance = ...
WriteFund(record, spotBalance, earnBalance) ==
    [record EXCEPT !.spotBalance = spotBalance, !.earnBalance = earnBalance]

\* the await a loop suspends at after callback()
AfterCallback(loopName) == IF loopName = "watchBalance" THEN "watch" ELSE "sleep"

\* a catch outside the while: the monitor loop is over
AfterCatchEndsLoop == "ended"

\* the catch of the monitor loop is inside the while: it falls through to sleep(5000)
AfterCatch == "sleep"

\* where a pass suspends after writing balances and total
AfterWrite(exchange) == IF exchange.isFundAccount THEN "fund" ELSE "notify"

\* a monitorBalances that creates the group record before it looks up the exchange class
MonitorBalancesRecordFirst(c) ==
    /\ UNCHANGED <<passVars, callVars, moduleVars>>
    /\ pc[c] = "new"
    /\ \A i \in 1..Len(StartOrder) :
          StartOrder[i] = c => \A j \in 1..(i - 1) : Started(StartOrder[j])
    /\ balances' = EnsureGroup(balances, Account(c))
    /\ IF Account(c).e \notin CcxtClasses
       THEN /\ pc' = [pc EXCEPT ![c] = "dead"]
            /\ UNCHANGED <<balanceCache, loop, subErr, wrote, obsVars>>
       ELSE /\ balanceCache' = [balanceCache EXCEPT ![c] = EmptyObj]
            /\ loop' = [loop EXCEPT ![c] = InitialLoop(ExchangeOf(c))]
            /\ pc' = [pc EXCEPT ![c] = AwaitOf(InitialLoop(ExchangeOf(c)))]
            /\ UNCHANGED <<subErr, wrote, obsVars>>

MonitorBalances(c) ==
    /\ UNCHANGED <<passVars, callVars, moduleVars>>
    /\ pc[c] = "new"
    /\ \A i \in 1..Len(StartOrder) :
          StartOrder[i] = c => \A j \in 1..(i - 1) : Started(StartOrder[j])
    /\ IF Account(c).e \notin CcxtClasses
       THEN /\ pc' = [pc EXCEPT ![c] = "dead"]
            /\ UNCHANGED <<balances, balanceCache, loop, subErr, wrote, obsVars>>
       ELSE /\ balances' = EnsureGroup(balances, Account(c))
            /\ balanceCache' = [balanceCache EXCEPT ![c] = EmptyObj]
            /\ loop' = [loop EXCEPT ![c] = InitialLoop(ExchangeOf(c))]
            /\ pc' = [pc EXCEPT ![c] = AwaitOf(InitialLoop(ExchangeOf(c)))]
            /\ UNCHANGED <<subErr, wrote, obsVars>>

(* The primary part of a pass of connection c on a balance answer: cache   *)
(* update, valuation, positions, write of balances and total.              *)
Normalize(c, fn, answer) ==
    LET g == Account(c).n
        base == balances[g].baseCurrency
        exchange == ExchangeOf(c)
        cache == UpdateCache(balanceCache[c], answer.total)
    IN  \E ticker \in TickersMet(cache, base, exchange) :
        \E alts \in AltsMet(cache, base, exchange, ticker) :
        \E positions \in PositionsMet(Revision, fn, exchange) :
          LET newAssets == NewAssets(Revision, fn, cache, base, exchange,
                                     Env(ticker, alts, positions))
          IN  /\ balanceCache' = [balanceCache EXCEPT ![c] = cache]
              /\ balances' = [balances EXCEPT ![g] = WriteGroup(balances[g], newAssets)]
              /\ pc' = [pc EXCEPT ![c] = AfterWrite(exchange)]
              /\ wrote' = [wrote EXCEPT ![c] = TRUE]
              /\ callbacks' = [callbacks EXCEPT ![c] = 0]
              /\ passObs' = [passObs EXCEPT ![c] =
                     PassOn(answer.kind, WriteGroup(balances[g], newAssets) # balances[g])]

\* a catch of the subscribe loop that logs and starts nothing
WatchErrorStops(c) ==
    /\ subErr' = [subErr EXCEPT ![c] = TRUE]
    /\ loop' = [loop EXCEPT ![c] = "none"]
    /\ pc' = [pc EXCEPT ![c] = "ended"]

\* the catch of the subscribe loop
WatchError(c) ==
    /\ subErr' = [subErr EXCEPT ![c] = TRUE]
    /\ loop' = [loop EXCEPT ![c] = LoopAfterWatchError]
    /\ pc' = [pc EXCEPT ![c] = AwaitOf(LoopAfterWatchError)]

\* await exchange.watchBalance() resolves or throws; compileAndUpdateBalances
WatchBalance(c) ==
    /\ UNCHANGED <<passVars, callVars, moduleVars>>
    /\ AllStarted
    /\ pc[c] = "watch"
    /\ \E answer \in BalanceAnswers[c] :
          IF answer.kind = "data"
          THEN /\ Normalize(c, "compileAndUpdateBalances", answer)
               /\ UNCHANGED <<loop, subErr>>
          ELSE /\ WatchError(c)
               /\ UNCHANGED <<balances, balanceCache, wrote, obsVars>>

\* one tick of the monitor loop: fetchCompleteBalance, processBalanceData
PollTick(c) ==
    /\ UNCHANGED <<passVars, callVars, moduleVars>>
    /\ AllStarted
    /\ pc[c] = "poll"
    /\ \E answer \in BalanceAnswers[c] :
          IF answer.kind = "undefined"
          THEN /\ pc' = [pc EXCEPT ![c] = AfterCatch]
               /\ UNCHANGED <<balances, balanceCache, loop, subErr, wrote, obsVars>>
          ELSE /\ Normalize(c, "processBalanceData", answer)
               /\ UNCHANGED <<loop, subErr>>

\* the spot fetch threw, or (gateio only) the earn fetch failed
FundFailed(exchangeId, spot, earn) ==
    spot.throws \/ (exchangeId = "gateio" /\ earn.throws)

\* a fund part without its try blocks: a failed fetch ends the pass in the loop's catch
FundWriteUncaught(c) ==
    /\ UNCHANGED <<passVars, callVars, moduleVars>>
    /\ pc[c] = "fund"
    /\ \E spot \in SpotAnswers, earn \in EarnAnswers :
          LET failed == FundFailed(ExchangeOf(c).id, spot, earn)
          IN  /\ balances' = IF failed THEN balances
                             ELSE [balances EXCEPT ![Account(c).n] =
                                      WriteFund(@, SpotBalance(spot),
                                                EarnBalance(ExchangeOf(c).id, earn))]
              /\ passObs' = [passObs EXCEPT ![c] =
                     [answer |-> @.answer, changed |-> @.changed \/ balances' # balances,
                      fundFailed |-> failed]]
              /\ pc' = [pc EXCEPT ![c] = IF failed THEN AfterCatch ELSE "notify"]
    /\ UNCHANGED <<balanceCache, loop, subErr, wrote, callbacks>>

\* the fund part of a pass: spot and earn balance, attached to the record
FundWrite(c) ==
    /\ UNCHANGED <<passVars, callVars, moduleVars>>
    /\ pc[c] = "fund"
    /\ \E spot \in SpotAnswers, earn \in EarnAnswers :
          /\ balances' = [balances EXCEPT ![Account(c).n] =
                 WriteFund(@, SpotBalance(spot), EarnBalance(ExchangeOf(c).id, earn))]
          /\ passObs' = [passObs EXCEPT ![c] =
                 [answer |-> @.answer, changed |-> @.changed \/ balances' # balances,
                  fundFailed |-> FundFailed(ExchangeOf(c).id, spot, earn)]]
    /\ pc' = [pc EXCEPT ![c] = "notify"]
    /\ UNCHANGED <<balanceCache, loop, subErr, wrote, callbacks>>

\* a loop that calls callback() only after a pass that changed the group record
NotifyIfChanged(c) ==
    /\ UNCHANGED <<passVars, callVars, moduleVars>>
    /\ pc[c] = "notify"
    /\ pc' = [pc EXCEPT ![c] = AfterCallback(loop[c])]
    /\ callbacks' = [callbacks EXCEPT ![c] = IF passObs[c].changed THEN @ + 1 ELSE @]
    /\ passObs' = [passObs EXCEPT ![c] = NoPass]
    /\ UNCHANGED <<balances, balanceCache, loop, subErr, wrote>>

\* a loop that calls callback() twice after a pass
NotifyTwice(c) ==
    /\ UNCHANGED <<passVars, callVars, moduleVars>>
    /\ pc[c] = "notify"
    /\ pc' = [pc EXCEPT ![c] = AfterCallback(loop[c])]
    /\ callbacks' = [callbacks EXCEPT ![c] = @ + 2]
    /\ passObs' = [passObs EXCEPT ![c] = NoPass]
    /\ UNCHANGED <<balances, balanceCache, loop, subErr, wrote>>

\* callback() after a pass, and the loop's next iteration
Notify(c) ==
    /\ UNCHANGED <<passVars, callVars, moduleVars>>
    /\ pc[c] = "notify"
    /\ \E throws \in BOOLEAN :
          IF throws /\ loop[c] = "watchBalance"
          THEN WatchError(c)
          ELSE /\ pc' = [pc EXCEPT ![c] =
                      IF throws THEN AfterCatch ELSE AfterCallback(loop[c])]
               /\ UNCHANGED <<loop, subErr>>
    /\ callbacks' = [callbacks EXCEPT ![c] = @ + 1]
    /\ passObs' = [passObs EXCEPT ![c] = NoPass]
    /\ UNCHANGED <<balances, balanceCache, wrote>>

\* a timer that fires only while no other connection waits for the network
SleepBehindOthers(c) ==
    /\ UNCHANGED <<passVars, callVars, moduleVars>>
    /\ pc[c] = "sleep"
    /\ \A o \in Conns \ {c} : pc[o] \notin {"watch", "poll", "fund"}
    /\ pc' = [pc EXCEPT ![c] = AwaitOf(loop[c])]
    /\ UNCHANGED <<balances, balanceCache, loop, subErr, wrote, obsVars>>

\* await sleep(5000) resolves: the monitor loop starts its next iteration
Sleep(c) ==
    /\ UNCHANGED <<passVars, callVars, moduleVars>>
    /\ pc[c] = "sleep"
    /\ pc' = [pc EXCEPT ![c] = AwaitOf(loop[c])]
    /\ UNCHANGED <<balances, balanceCache, loop, subErr, wrote, obsVars>>

LoopNext ==
    \E c \in Conns :
        \/ MonitorBalances(c)
        \/ WatchBalance(c)
        \/ PollTick(c)
        \/ FundWrite(c)
        \/ Notify(c)
        \/ Sleep(c)

----------------------------------------------------------------------------
(* One connection taken alone: pass after pass of processBalanceData on a  *)
(* derivatives exchange, with three currencies (the valuation currency     *)
(* USD, ETH, and BTC which always has the market BTC/USD) and an           *)
(* independent answer for each currency.                                   *)

PassBase == "USD"

PassMarkets ==
    { {"BTC/USD", PerpETH},
      {"BTC/USD", PerpETH, "USD/ETH"},
      {"BTC/USD", PerpETH, "ETH/USD", "USD/ETH", "USD/USDT"} }

PassExchange(markets) ==
    [id |-> "kraken", hasWatchBalance |-> FALSE, hasFetchPositions |-> TRUE,
     markets |-> markets, defaultType |-> "swap", isFundAccount |-> FALSE]

PassTotals ==
    Totals([USD |-> {Zero, Num(1, 200), Num(100, 1)},
            ETH |-> {Zero, Num(2, 1)},
            BTC |-> {Num(1, 1000000), Num(1, 2)}])

PassTickers == TickerAnswers

PassAlts ==
    { <<Alt({}, TickerThrows), Alt({}, TickerThrows), Alt({}, TickerThrows)>>,
      <<AltThrows, Alt({"ETH/USDT"}, Ticker(Num(2000, 1), Undefined)), AltThrows>> }

PassPositions ==
    { Positions(<<Position(PerpETH, Num(10, 1), Num(-5, 1), FALSE)>>),
      Positions(<<Position(PerpETH, Num(10, 1), Num(-1, 200), FALSE)>>) }

PassEnv(ticker, alts, positions) ==
    [ticker |-> [c \in Currencies |->
                    IF c = "ETH" THEN ticker ELSE Ticker(Num(60000, 1), Undefined)],
     alts |-> [c \in Currencies |-> IF c = "ETH" THEN alts ELSE NoAlts],
     positions |-> positions]

PassInit ==
    /\ pMarkets \in PassMarkets
    /\ pDeleted = {}
    /\ pCache = EmptyObj
    /\ pGroup = GroupRecord("Solo", PassBase)
    /\ pSeen = EmptyObj
    /\ pProbed = {}

PassIdle ==
    /\ pMarkets = {}
    /\ pDeleted = {}
    /\ pCache = EmptyObj
    /\ pGroup = GroupRecord("Solo", PassBase)
    /\ pSeen = EmptyObj
    /\ pProbed = {}

\* processBalanceData(exchange, {total}, groupName, balancesObj, balanceCache)
ProcessBalanceData ==
    /\ UNCHANGED <<loopVars, callVars, pMarkets, moduleVars>>
    /\ \E total \in PassTotals :
         LET cache == UpdateCache(pCache, total)
             exchange == PassExchange(pMarkets)
             listed == "ETH" \in Listed(cache, pGroup.baseCurrency, exchange)
         IN  \E ticker \in IF listed THEN PassTickers ELSE {TickerThrows} :
             \E alts \in IF "ETH" \in DOMAIN cache /\ (~listed \/ ticker.throws)
                         THEN PassAlts ELSE {NoAlts} :
             \E positions \in PassPositions :
               /\ pDeleted' = CacheDeletes(pCache, total)
               /\ pCache' = cache
               /\ pGroup' = WriteGroup(pGroup,
                      NewAssets(Revision, "processBalanceData", cache,
                                pGroup.baseCurrency, exchange,
                                PassEnv(ticker, alts, positions)))
               /\ pSeen' = total
               /\ pProbed' = Probed(cache, pGroup.baseCurrency)

PassNext == ProcessBalanceData


----------------------------------------------------------------------------
(* One call taken alone: the valuation of one cached currency (the body of *)
(* the loop over the cache), one pass with positions on a cache that holds *)
(* only the valuation currency, or one pass without positions on a cache   *)
(* of several currencies.                                                  *)

CallCurrencies == {"ETH"}
CallBases == {"USD", "EUR"}
CallAmounts == {Num(2, 1), Num(-3, 1)}

CandidateIds(currency, baseCurrency) ==
    {PossiblePairs(currency, baseCurrency)[i].id : i \in 1..6}

CallTickers ==
    { Ticker(Num(1, 2500), Undefined), Ticker(Undefined, Num(1, 2500)),
      Ticker(Zero, Zero), Ticker(Undefined, Undefined), Ticker(Zero, Num(4, 1)) }

AltOptions ==
    { AltThrows, Alt({}, TickerThrows),
      Alt({"ETH/USDT"}, Ticker(Num(2000, 1), Undefined)),
      Alt({"USDT/ETH"}, Ticker(Num(1, 2000), Undefined)),
      Alt({"USD/ETH"}, Ticker(Zero, Zero)),
      Alt({"ETH/USD"}, Ticker(Undefined, Undefined)),
      Alt({"ETH/USD"}, TickerThrows) }

SpotEntryCall(currency, amount, baseCurrency, markets, ticker, alts) ==
    [fn |-> "SpotEntry", currency |-> currency, amount |-> amount,
     baseCurrency |-> baseCurrency, markets |-> markets, ticker |-> ticker,
     alts |-> alts]

\* calls the primary exchange answers: some candidate is a market, the ticker returns
PrimaryCalls ==
    UNION {{SpotEntryCall(c, a, b, m, t, NoAlts) :
              a \in CallAmounts, m \in (SUBSET CandidateIds(c, b)) \ {{}}, t \in CallTickers}
           : c \in CallCurrencies, b \in CallBases}

\* calls that fall back to the alternates: no candidate is a market, or the ticker throws
FallbackCalls ==
    UNION {{SpotEntryCall(c, a, b, m, TickerThrows, <<x, y, z>>) :
              a \in CallAmounts, m \in {{}, {Pair("USD", c).id}},
              x \in AltOptions, y \in AltOptions, z \in AltOptions}
           : c \in CallCurrencies, b \in CallBases}

PerpBTC == "BTC/USDT:USDT"

CallPositions ==
    LET eth(contracts, pnl, throws) == Position(PerpETH, contracts, pnl, throws)
        btc(contracts, pnl, throws) == Position(PerpBTC, contracts, pnl, throws)
    IN  { PositionsThrow, Positions(<< >>),
          Positions(<<eth(Num(10, 1), Num(-5, 1), FALSE)>>),
          Positions(<<eth(Num(10, 1), Num(-1, 200), FALSE)>>),
          Positions(<<eth(Zero, Num(3, 1), FALSE)>>),
          Positions(<<eth(Num(10, 1), Undefined, FALSE)>>),
          Positions(<<Position(PerpXRP, Num(4, 1), Num(9, 1), FALSE)>>),
          Positions(<<eth(Num(10, 1), Num(-5, 1), FALSE), btc(Num(3, 1), Num(7, 1), FALSE)>>),
          Positions(<<eth(Num(10, 1), Num(-5, 1), TRUE)>>),
          Positions(<<eth(Num(10, 1), Num(-5, 1), FALSE), btc(Num(3, 1), Num(7, 1), TRUE)>>),
          Positions(<<eth(Num(10, 1), Num(-5, 1), FALSE), eth(Num(-4, 1), Num(8, 1), FALSE)>>) }

PositionCalls ==
    {[fn |-> "Positions", revision |-> r, pass |-> f, hasFetchPositions |-> h,
      defaultType |-> d, positions |-> ps] :
        r \in {"current", "legacy"},
        f \in {"processBalanceData", "compileAndUpdateBalances"},
        h \in BOOLEAN, d \in {"swap", "spot"}, ps \in CallPositions}

CallExchange(markets, hasFetchPositions, defaultType) ==
    [id |-> "gateio", hasWatchBalance |-> TRUE, hasFetchPositions |-> hasFetchPositions,
     markets |-> markets, defaultType |-> defaultType, isFundAccount |-> FALSE]

PassCall(cache, markets, ticker, alts) ==
    [fn |-> "Pass", balanceCache |-> cache, markets |-> markets,
     ticker |-> ticker, alts |-> alts]

CallCaches ==
    { [ETH |-> Num(2, 1)],
      [ETH |-> Num(2, 1), BTC |-> Num(1, 2)],
      [USD |-> Num(100, 1), ETH |-> Num(2, 1), BTC |-> Num(1, 2)] }

\* passes in which the primary exchange lists ETH and its ticker returns
ListedPassCalls ==
    {PassCall(cache, m, t, NoAlts) :
        cache \in CallCaches,
        m \in {{"BTC/USD", "ETH/USD"}, {"BTC/USD", "USD/ETH"}, {"BTC/USD", "USDT/ETH"}},
        t \in CallTickers}

\* passes in which ETH falls back to the alternates
FallbackPassCalls ==
    {PassCall(cache, m, TickerThrows, <<x, y, z>>) :
        cache \in CallCaches, m \in {{"BTC/USD"}, {"BTC/USD", "ETH/USD"}},
        x \in AltOptions, y \in AltOptions, z \in AltOptions}

\* the answers of a pass call: those of the call for ETH, a price of 60000 for BTC
CallEnv(ticker, alts) ==
    [ticker |-> [c \in Currencies |->
                    IF c = "ETH" THEN ticker ELSE Ticker(Num(60000, 1), Undefined)],
     alts |-> [c \in Currencies |-> IF c = "ETH" THEN alts ELSE NoAlts],
     positions |-> PositionsThrow]

CallCache == [USD |-> Num(100, 1)]

\* the answers for ETH in one pass: the primary ticker and the three alternates
PassAnswers ==
    { [ticker |-> TickerThrows, alts |-> NoAlts],
      [ticker |-> TickerThrows,
       alts |-> <<Alt({}, TickerThrows), AltThrows, Alt({"ETH/USD"}, TickerThrows)>>],
      [ticker |-> TickerThrows,
       alts |-> <<AltThrows, Alt({"ETH/USDT"}, Ticker(Num(2000, 1), Undefined)), AltThrows>>],
      [ticker |-> Ticker(Num(2500, 1), Undefined), alts |-> NoAlts] }

FirstTotals ==
    { [ETH |-> Num(2, 1), BTC |-> Num(1, 2)],
      [USD |-> Num(100, 1), ETH |-> Num(2, 1)],
      [USD |-> Num(100, 1), ETH |-> Num(2, 1), BTC |-> Num(1, 2)] }

SecondTotals == { EmptyObj, [BTC |-> Num(1, 2)], [ETH |-> Num(3, 1)], [ETH |-> Zero] }

\* two consecutive ticks of one connection, from an empty cache
TwoPassCalls ==
    {[fn |-> "TwoPasses", markets |-> m,
      first |-> [total |-> t1, ticker |-> a1.ticker, alts |-> a1.alts],
      second |-> [total |-> t2, ticker |-> a2.ticker, alts |-> a2.alts]] :
        m \in {{"BTC/USD"}, {"BTC/USD", "ETH/USD"}},
        t1 \in FirstTotals, a1 \in PassAnswers,
        t2 \in SecondTotals, a2 \in PassAnswers}

NotReturned == [done |-> FALSE]
Returned(value) == [done |-> TRUE, value |-> value]

SwapSecondTotals ==
    { EmptyObj, [ETH |-> Zero], [USD |-> Zero],
      [USD |-> Num(1, 200), BTC |-> Zero] }

SwapPositions ==
    { PositionsThrow, Positions(<< >>),
      Positions(<<Position(PerpETH, Num(10, 1), Num(-5, 1), FALSE)>>),
      Positions(<<Position(PerpBTC, Num(3, 1), Num(7, 1), FALSE)>>) }

\* two consecutive ticks of one connection of defaultType swap, the first with an ETH position
TwoSwapPassCalls ==
    {[fn |-> "TwoSwapPasses", markets |-> m \cup {"BTC/USD", PerpETH, PerpBTC},
      first |-> [total |-> [USD |-> Num(100, 1), ETH |-> Num(2, 1), BTC |-> Num(1, 2)],
                 ticker |-> a1.ticker, alts |-> a1.alts,
                 positions |-> Positions(<<Position(PerpETH, Num(10, 1), Num(-5, 1), FALSE)>>)],
      second |-> [total |-> t2, ticker |-> a2.ticker, alts |-> a2.alts, positions |-> p2]] :
        m \in {{}, {"ETH/USD"}}, a1 \in PassAnswers,
        t2 \in SwapSecondTotals, a2 \in PassAnswers, p2 \in SwapPositions}

(* Calls on exchanges that answer fetchTicker per market: quotes maps each  *)
(* candidate symbol to the ticker the exchange returns for it.             *)

\* the value of one unit of a currency in USD on the day of the calls
UsdRate(x) == CASE x = "ETH" -> Num(2000, 1) [] x = "EUR" -> Num(2, 1) [] OTHER -> One

\* the ticker of market `${x}/${y}` at these rates
RateTicker(x, y) == Ticker(Mul(UsdRate(x), Recip(UsdRate(y))), Undefined)

\* every candidate market quoted at the rates
RateQuotes(currency, baseCurrency) ==
    [id \in CandidateIds(currency, baseCurrency) |->
        LET x == CHOOSE x \in {currency, baseCurrency, "USD", "USDT"} :
                    \E y \in {currency, baseCurrency, "USD", "USDT"} : Pair(x, y).id = id
            y == CHOOSE y \in {currency, baseCurrency, "USD", "USDT"} : Pair(x, y).id = id
        IN  RateTicker(x, y)]

\* every candidate market quoted at a price of its own
OwnQuotes(currency, baseCurrency) ==
    LET pairs == PossiblePairs(currency, baseCurrency)
        last == <<Num(3, 1), Num(1, 5), Num(7, 1), Num(1, 11), Num(13, 1), Num(1, 17)>>
    IN  [id \in CandidateIds(currency, baseCurrency) |->
            Ticker(last[CHOOSE i \in 1..6 : pairs[i].id = id
                                            /\ \A j \in 1..6 : pairs[j].id = id => i <= j],
                   Undefined)]

QuoteHoldings == {<<"ETH", "USD">>, <<"ETH", "EUR">>, <<"USD", "EUR">>, <<"USDT", "EUR">>}

\* the candidate symbols an exchange may list for a holding (none pairs a currency with itself)
QuoteMarkets(currency, baseCurrency) ==
    {id \in CandidateIds(currency, baseCurrency) : \A x \in {"USD", "USDT"} : id # Pair(x, x).id}

QuoteAltThrows == [throws |-> TRUE, markets |-> {}, quotes |-> << >>]

NoQuoteAlts == <<QuoteAltThrows, QuoteAltThrows, QuoteAltThrows>>

QuoteCall(currency, baseCurrency, markets, quotes, alts) ==
    [fn |-> "Quote", currency |-> currency, amount |-> Num(2, 1),
     baseCurrency |-> baseCurrency, markets |-> markets, quotes |-> quotes, alts |-> alts]

\* the primary exchange lists some candidate
QuotePrimaryCalls ==
    UNION {{QuoteCall(h[1], h[2], m, q, NoQuoteAlts) :
              m \in (SUBSET QuoteMarkets(h[1], h[2])) \ {{}},
              q \in {RateQuotes(h[1], h[2]), OwnQuotes(h[1], h[2])}}
           : h \in QuoteHoldings}

\* the primary exchange lists none, the second alternate lists some
QuoteAltCalls ==
    UNION {{QuoteCall(h[1], h[2], {}, OwnQuotes(h[1], h[2]),
                      <<QuoteAltThrows, [throws |-> FALSE, markets |-> m, quotes |-> q],
                        QuoteAltThrows>>) :
              m \in (SUBSET QuoteMarkets(h[1], h[2])) \ {{}},
              q \in {RateQuotes(h[1], h[2]), OwnQuotes(h[1], h[2])}}
           : h \in QuoteHoldings}

(* Calls of the Telegram sink: update(balances) as the callback makes it,   *)
(* then one run of updateMessages.                                         *)

\* the pnl section of config.json: disabled, or enabled with a start for "Main Fund"
PnlConfigs ==
    { [enabled |-> FALSE, pools |-> EmptyObj],
      [enabled |-> TRUE,
       pools |-> [g \in {"Main Fund"} |->
                    [start |-> Num(1700000000, 1), balance |-> Num(80, 1)]]] }

\* seconds between the configured start and the run of updateMessages
SecondsSinceStart == Num(1209600, 1)

\* Global Snapshots as the passes leave them
DisplaySnapshots ==
    LET usd == [USD |-> SpotAsset("USD", Num(100, 1), Num(100, 1))]
        btc == [BTC |-> SpotAsset("BTC", Num(1, 2), Num(30000, 1))]
        main(assets) == WriteGroup(GroupRecord("Main Fund", "USD"), assets)
        solo(assets) == WriteGroup(GroupRecord("Solo", "EUR"), assets)
    IN  {[g \in {"Main Fund"} |-> main(a)] : a \in {EmptyObj, usd, btc}}
        \cup {[g \in {"Main Fund", "Solo"} |-> IF g = "Solo" THEN solo(b) ELSE main(a)] :
                 a \in {usd, btc}, b \in {EmptyObj, usd}}

DisplayCalls ==
    {[fn |-> "Display", balances |-> b, pnlConfig |-> c] :
        b \in DisplaySnapshots, c \in PnlConfigs}

(* Calls of the change callback updateAndRender from a connection loop:    *)
(* enabled are the sinks mon.js loaded (for Telegram: tg is set and         *)
(* tg.update is a function), throwing those whose call throws               *)
(* synchronously, loop the loop that calls.                                 *)
Sinks == <<"table", "sheets", "tg">>
SinkNames == {Sinks[n] : n \in 1..Len(Sinks)}

UpdateAndRenderCalls ==
    {[fn |-> "UpdateAndRender", enabled |-> e, throwing |-> t, loop |-> l] :
        e \in SUBSET SinkNames, t \in SUBSET SinkNames, l \in {"watchBalance", "monitor"}}

CallInit ==
    /\ call \in PrimaryCalls \cup FallbackCalls \cup PositionCalls
                 \cup ListedPassCalls \cup FallbackPassCalls \cup TwoPassCalls
                 \cup QuotePrimaryCalls \cup QuoteAltCalls \cup DisplayCalls
                 \cup TwoSwapPassCalls \cup UpdateAndRenderCalls
    /\ result = NotReturned

CallIdle ==
    /\ call = [fn |-> "none"]
    /\ result = NotReturned

\* the body of the loop over the cache, for call.currency
SpotEntryReturns ==
    /\ UNCHANGED <<loopVars, passVars, call, moduleVars>>
    /\ call.fn = "SpotEntry"
    /\ ~result.done
    /\ result' = Returned(SpotEntry(call.currency, call.amount, call.baseCurrency,
                                    call.markets, call.ticker, call.alts))

\* a pass of call.pass in revision call.revision, to the write of balances and total
PositionsPassReturns ==
    /\ UNCHANGED <<loopVars, passVars, call, moduleVars>>
    /\ call.fn = "Positions"
    /\ ~result.done
    /\ result' = Returned(WriteGroup(GroupRecord("Solo", "USD"),
           NewAssets(call.revision, call.pass, CallCache, "USD",
                     CallExchange({PerpETH, PerpBTC}, call.hasFetchPositions,
                                  call.defaultType),
                     Env(TickerThrows, NoAlts, call.positions))))

\* a pass of processBalanceData on call.balanceCache, to the write of balances and total
PassReturns ==
    /\ UNCHANGED <<loopVars, passVars, call, moduleVars>>
    /\ call.fn = "Pass"
    /\ ~result.done
    /\ result' = Returned(WriteGroup(GroupRecord("Solo", "USD"),
           NewAssets(Revision, "processBalanceData", call.balanceCache, "USD",
                     CallExchange(call.markets, FALSE, "spot"),
                     CallEnv(call.ticker, call.alts))))

\* processBalanceData on snapshot tick.total: the cache update, then the write
PassOf(cache, record, markets, tick) ==
    LET updated == UpdateCache(cache, tick.total)
    IN  [balanceCache |-> updated,
         record |-> WriteGroup(record,
             NewAssets(Revision, "processBalanceData", updated, "USD",
                       CallExchange(markets, FALSE, "spot"),
                       CallEnv(tick.ticker, tick.alts)))]

\* two iterations of the loop of startPolling on one connection
TwoPassesReturn ==
    /\ UNCHANGED <<loopVars, passVars, call, moduleVars>>
    /\ call.fn = "TwoPasses"
    /\ ~result.done
    /\ LET first == PassOf(EmptyObj, GroupRecord("Solo", "USD"), call.markets, call.first)
           second == PassOf(first.balanceCache, first.record, call.markets, call.second)
       IN  result' = Returned([first |-> first, second |-> second])

\* processBalanceData on an exchange of defaultType swap: cache update, spot
\* assets, positions, write
SwapPassOf(cache, record, markets, tick) ==
    LET updated == UpdateCache(cache, tick.total)
    IN  [balanceCache |-> updated,
         record |-> WriteGroup(record,
             NewAssets(Revision, "processBalanceData", updated, "USD",
                       CallExchange(markets, TRUE, "swap"),
                       [CallEnv(tick.ticker, tick.alts) EXCEPT !.positions = tick.positions]))]

\* two iterations of the loop of startPolling on a connection of defaultType swap
TwoSwapPassesReturn ==
    /\ UNCHANGED <<loopVars, passVars, call, moduleVars>>
    /\ call.fn = "TwoSwapPasses"
    /\ ~result.done
    /\ LET first == SwapPassOf(EmptyObj, GroupRecord("Solo", "USD"), call.markets, call.first)
           second == SwapPassOf(first.balanceCache, first.record, call.markets, call.second)
       IN  result' = Returned([first |-> first, second |-> second])

\* the symbol fetchTicker is called with on an exchange: null when no candidate is listed
MarketId(markets, currency, baseCurrency) ==
    LET pairs == PossiblePairs(currency, baseCurrency)
        m == FirstMarket(markets, pairs)
    IN  IF m = 0 THEN "null" ELSE pairs[m].id

\* exchange.fetchTicker(marketId) on an exchange that answers with quotes
FetchTicker(quotes, marketId) ==
    IF marketId = "null" THEN TickerThrows ELSE quotes[marketId]

\* what an alternate does when asked for the price of a currency
AltAnswer(alternate, currency, baseCurrency) ==
    IF alternate.throws THEN AltThrows
    ELSE Alt(alternate.markets,
             FetchTicker(alternate.quotes,
                         MarketId(alternate.markets, currency, baseCurrency)))

\* the body of the loop over the cache for call.currency, with the symbols it fetched
QuoteReturns ==
    /\ UNCHANGED <<loopVars, passVars, call, moduleVars>>
    /\ call.fn = "Quote"
    /\ ~result.done
    /\ LET marketId == MarketId(call.markets, call.currency, call.baseCurrency)
           alts == [i \in 1..3 |-> AltAnswer(call.alts[i], call.currency, call.baseCurrency)]
       IN  result' = Returned(
               [marketId |-> marketId,
                altMarketId |-> [i \in 1..3 |->
                    MarketId(call.alts[i].markets, call.currency, call.baseCurrency)],
                entry |-> SpotEntry(call.currency, call.amount, call.baseCurrency,
                                    call.markets, FetchTicker(call.quotes, marketId), alts)])

\* calculatePercentageChange(start, current)
CalculatePercentageChange(start, current) ==
    IF start = Zero THEN Zero
    ELSE Mul(Mul(Add(current, Mul(start, Num(-1, 1))), Recip(start)), Num(100, 1))

\* calculateWeeklyPNL(totalPNL, secondsSinceStart)
CalculateWeeklyPNL(totalPNL, secondsSinceStart) ==
    IF secondsSinceStart.n <= 0 THEN Zero
    ELSE Mul(Mul(Num(604800, 1), Recip(secondsSinceStart)), totalPNL)

(* The body of the loop of prepareBalancesForDisplay for one account: the  *)
(* record accountData after the assignments to its balances (the same      *)
(* entries, sorted), pnlP, pnlW and startTime.                             *)
DisplayRecord(accountData, account, pnlConfig) ==
    LET tracked == pnlConfig.enabled /\ Has(pnlConfig.pools, account)
        totalPNL == CalculatePercentageChange(pnlConfig.pools[account].balance,
                                              JsOr(accountData.total, Zero))
    IN  [exchange |-> accountData.exchange, balances |-> accountData.balances,
         baseCurrency |-> accountData.baseCurrency, total |-> accountData.total,
         spotBalance |-> accountData.spotBalance, earnBalance |-> accountData.earnBalance,
         pnlP |-> IF tracked THEN totalPNL ELSE Zero,
         pnlW |-> IF tracked THEN CalculateWeeklyPNL(totalPNL, SecondsSinceStart) ELSE Zero,
         startTime |-> IF tracked THEN pnlConfig.pools[account].start ELSE Null]

RECURSIVE SumTotals(_, _)
SumTotals(records, keys) ==
    IF keys = {} THEN Zero
    ELSE LET key == CHOOSE x \in keys : TRUE
         IN  Add(SumTotals(records, keys \ {key}), JsOr(records[key].total, Zero))

(* update(balances) then updateMessages: this.balances is a shallow copy,  *)
(* so its group records are the objects of the Global Snapshot, and        *)
(* prepareBalancesForDisplay assigns to them; 'All Pools' is added to the  *)
(* copy only.  The call returns the Global Snapshot and this.balances as   *)
(* they are afterwards.                                                    *)
DisplayReturns ==
    /\ UNCHANGED <<loopVars, passVars, call, moduleVars>>
    /\ call.fn = "Display"
    /\ ~result.done
    /\ LET shared == [g \in DOMAIN call.balances |->
                         DisplayRecord(call.balances[g], g, call.pnlConfig)]
       IN  result' = Returned(
               [snapshot |-> shared,
                display |-> [g \in DOMAIN shared \cup {"All Pools"} |->
                                IF g = "All Pools"
                                THEN [total |-> SumTotals(shared, DOMAIN shared)]
                                ELSE shared[g]]])

\* nothing invoked, nothing logged, no exception on its way out
NoSinkRun == [invoked |-> << >>, logged |-> << >>, escaped |-> FALSE]

\* if (sink) { try { sink(balances) } catch (error) { console.error(...) } }
GuardedSink(run, sink, enabled, throwing) ==
    IF run.escaped \/ sink \notin enabled THEN run
    ELSE [run EXCEPT !.invoked = Append(@, sink),
                     !.logged = IF sink \in throwing THEN Append(@, sink) ELSE @]

\* sink(balances) outside any try
UnguardedSink(run, sink, throwing) ==
    IF run.escaped THEN run
    ELSE [run EXCEPT !.invoked = Append(@, sink), !.escaped = sink \in throwing]

\* updateAndRender of the older mon.js: table.render(balances) first, outside any
\* try, then the guarded Sheets sink; no Telegram sink
UpdateAndRenderOlder(enabled, throwing) ==
    GuardedSink(UnguardedSink(NoSinkRun, "table", throwing), "sheets", enabled, throwing)

\* updateAndRender()
UpdateAndRender(enabled, throwing) ==
    GuardedSink(GuardedSink(GuardedSink(NoSinkRun, "table", enabled, throwing),
                            "sheets", enabled, throwing),
                "tg", enabled, throwing)

\* the loop that goes on after callback(): an exception inside the try of
\* watchBalance starts the polling loop, the polling loop catches inside its while
LoopAfterCallback(loopName, escaped) ==
    IF escaped /\ loopName = "watchBalance" THEN "monitor" ELSE loopName

\* callback() of a connection loop, to the loop's next await
UpdateAndRenderReturns ==
    /\ UNCHANGED <<loopVars, passVars, call, moduleVars>>
    /\ call.fn = "UpdateAndRender"
    /\ ~result.done
    /\ LET run == UpdateAndRender(call.enabled, call.throwing)
       IN  result' = Returned([invoked |-> run.invoked, logged |-> run.logged,
                               escaped |-> run.escaped,
                               loop |-> LoopAfterCallback(call.loop, run.escaped)])

CallNext ==
    \/ SpotEntryReturns \/ PositionsPassReturns \/ PassReturns \/ TwoPassesReturn
    \/ QuoteReturns \/ DisplayReturns \/ TwoSwapPassesReturn
    \/ UpdateAndRenderReturns

----------------------------------------------------------------------------
(* Specifications *)

Init == LoopInit /\ PassIdle /\ CallIdle /\ ModulesIdle
Next == LoopNext
Spec == Init /\ [][Next]_vars

InitPass == LoopInit /\ PassInit /\ CallIdle /\ ModulesIdle
SpecPass == InitPass /\ [][PassNext]_vars

InitCalls == LoopInit /\ PassIdle /\ CallInit /\ ModulesIdle
SpecCalls == InitCalls /\ [][CallNext]_vars

(* The scheduling of the loops.  The start loop of mon.js is synchronous   *)
(* and runs to its end; callback() is called synchronously after the pass  *)
(* and the timer of sleep(5000) fires.  Returns(c) is the assumption that  *)
(* every fetch of connection c (fetchBalance, fetchTicker, fetchPositions, *)
(* the fund fetches) returns or throws: c does not wait for ever at the    *)
(* await of a tick or of the fund part.  Nothing is assumed of             *)
(* watchBalance, which resolves only when the exchange pushes.             *)
StartLoop == \E c \in Conns : MonitorBalances(c)

Returns(c) == []<>(pc[c] # "poll") /\ []<>(pc[c] # "fund")

Fair(c) == WF_vars(Notify(c)) /\ WF_vars(Sleep(c)) /\ Returns(c)

SpecFair == Init /\ [][Next]_vars /\ WF_vars(StartLoop) /\ \A c \in Conns : Fair(c)

(* The same loops with nothing assumed of the network: any call of any     *)
(* connection may stay pending for ever.  Only the synchronous steps and   *)
(* the timer are scheduled.                                                *)
SpecIndependent ==
    Init /\ [][Next]_vars /\ WF_vars(StartLoop)
         /\ \A c \in Conns : WF_vars(Notify(c)) /\ WF_vars(Sleep(c))

----------------------------------------------------------------------------
(* The REST variant (rest.js).  monitorBalancesREST walks the accounts     *)
(* array inside one async function; pollBalances arms a 5 s interval whose *)
(* callback is async, so a tick starts a pass whether or not the previous  *)
(* pass of the connection has finished.  A pass suspends at every await    *)
(* (the balance fetch, each ticker or alternate price, the positions and   *)
(* each position's ticker).  An asset mapping is an object with identity:  *)
(* rest.objs maps object ids to contents, a group record and a pass hold   *)
(* ids.                                                                    *)

\* the accounts array handed to monitorBalancesREST
RestAccounts ==
    << [e |-> "nosuch", groupName |-> "Lost", baseCurrency |-> "USD"],
       [e |-> "kraken", groupName |-> "Main Fund", baseCurrency |-> "USD"],
       [e |-> "gateio", groupName |-> "Side", baseCurrency |-> "USD"] >>

RestConns == 1..Len(RestAccounts)

\* the exchange object of an account: id, has['fetchPositions'], markets
RestExchange(e) ==
    IF e = "gateio"
    THEN [id |-> e, hasFetchPositions |-> TRUE, markets |-> {PerpETH}]
    ELSE [id |-> e, hasFetchPositions |-> FALSE, markets |-> {"ETH/USD"}]

\* the passes that may be in flight at once, over all connections
MaxInFlight == 2

\* amount && Math.abs(amount) > 1e-8, that is |n| * 10^8 > d, computed without the product
RestThresholdDen == 100000000
RestKeepsAmount(amount) ==
    /\ Truthy(amount)
    /\ amount.k = "inf" \/ RestThresholdDen > amount.d \div AbsInt(amount.n)

Entry(currency, amount) == [currency |-> currency, amount |-> amount]

\* Object.entries(balanceData.total) of the answers fetchBalance may give;
\* a fetch that throws is turned into { total: {} } by fetchCompleteBalance
RestBalanceAnswers(e) ==
    IF e = "gateio"
    THEN { <<Entry("USD", Num(100, 1))>> }
    ELSE { << >>,
           <<Entry("ETH", Num(2, 1)), Entry("USD", Num(100, 1))>>,
           <<Entry("BTC", Num(1, 2)), Entry("USDC", Num(10, 1))>> }

RestTickerAnswers == {TickerThrows, Ticker(Num(2000, 1), Undefined)}

RestAltAnswers ==
    { NoAlts,
      <<AltThrows,
        Alt({"USDT/BTC", "USDC/USD"}, Ticker(Zero, Num(4, 1))),
        AltThrows>> }

RestPositionAnswers ==
    { PositionsThrow,
      Positions(<<Position(PerpETH, Num(10, 1), Num(-5, 1), FALSE)>>) }

\* if (totalBalances['USDC']) { ... totalBalances = { 'USDC': usdcAmount, ...totalBalances } }
UsdcFirst(entries) ==
    LET at == {i \in 1..Len(entries) : entries[i].currency = "USDC"}
    IN  IF at = {} THEN entries
        ELSE LET i == CHOOSE x \in at : TRUE
             IN  IF ~Truthy(entries[i].amount) THEN entries
                 ELSE <<entries[i]>> \o SubSeq(entries, 1, i - 1)
                                     \o SubSeq(entries, i + 1, Len(entries))

(* fetchPriceFromAlternativeExchange of rest.js: the first alternate that  *)
(* lists a candidate pair and answers returns ticker.last || ticker.close  *)
(* as it is; null when there is none.                                      *)
RECURSIVE RestAltPriceFrom(_, _, _, _)
RestAltPriceFrom(i, currency, baseCurrency, alts) ==
    IF i > Len(AlternativeExchanges) THEN Null
    ELSE LET alt == alts[i]
             m == FirstMarket(alt.markets, PossiblePairs(currency, baseCurrency))
         IN  IF alt.throws \/ m = 0 \/ alt.ticker.throws
             THEN RestAltPriceFrom(i + 1, currency, baseCurrency, alts)
             ELSE PriceValue(alt.ticker)

(* The loop over the entries from entry i up to its next await: an entry   *)
(* at or under the threshold is passed over, the valuation currency is     *)
(* recorded with baseValue = amount, any other currency awaits a ticker    *)
(* (a candidate pair is a market) or the alternates (none is).             *)
RECURSIVE RestScan(_, _, _, _, _)
RestScan(entries, i, assets, baseCurrency, markets) ==
    IF i > Len(entries) THEN [stage |-> "spotDone", i |-> i, assets |-> assets]
    ELSE LET currency == entries[i].currency
             amount == entries[i].amount
         IN  IF ~RestKeepsAmount(amount)
             THEN RestScan(entries, i + 1, assets, baseCurrency, markets)
             ELSE IF currency = baseCurrency
             THEN RestScan(entries, i + 1,
                           Put(assets, currency, SpotAsset(currency, amount, amount)),
                           baseCurrency, markets)
             ELSE IF FirstMarket(markets, PossiblePairs(currency, baseCurrency)) = 0
             THEN [stage |-> "alt", i |-> i, assets |-> assets]
             ELSE [stage |-> "ticker", i |-> i, assets |-> assets]

\* if (price) { baseValue = amount * price } else { continue }
RestPriced(assets, entry, price) ==
    IF Truthy(price)
    THEN Put(assets, entry.currency,
             SpotAsset(entry.currency, entry.amount, Mul(entry.amount, price)))
    ELSE assets

(* The loop over the positions from position i up to its next await: a     *)
(* position with contracts !== 0 awaits its ticker.                        *)
RECURSIVE RestScanPositions(_, _)
RestScanPositions(list, i) ==
    IF i > Len(list) THEN [stage |-> "end", i |-> i]
    ELSE IF list[i].contracts = Zero THEN RestScanPositions(list, i + 1)
    ELSE [stage |-> "posTicker", i |-> i]

\* no pass has just ended
NoEvent == [conn |-> 0, outcome |-> "none"]

RestInit ==
    rest = [startup |-> "new", next |-> 1, polling |-> {}, failed |-> {},
            balancesObj |-> EmptyObj, objs |-> EmptyObj, passes |-> << >>,
            last |-> NoEvent]

\* the object ids in use, and the smallest free one
RestUsed(balancesObj, passes) ==
    {balancesObj[g].balances : g \in DOMAIN balancesObj}
        \cup {passes[k].assets : k \in 1..Len(passes)}

NewObj(objs) == CHOOSE id \in 1..(Len(RestAccounts) + MaxInFlight + 1) :
                    /\ id \notin DOMAIN objs
                    /\ \A j \in 1..(id - 1) : j \in DOMAIN objs

\* objects no group record and no pass refers to are gone
Collect(objs, balancesObj, passes) ==
    [id \in DOMAIN objs \cap RestUsed(balancesObj, passes) |-> objs[id]]

\* the sequence without its k-th element
Without(seq, k) == SubSeq(seq, 1, k - 1) \o SubSeq(seq, k + 1, Len(seq))

\* first account at or after i whose exchange class exists (the others take `continue`)
RECURSIVE NextKnown(_)
NextKnown(i) ==
    IF i > Len(RestAccounts) \/ RestAccounts[i].e \in CcxtClasses THEN i
    ELSE NextKnown(i + 1)

\* the accounts between i and j - 1
Skipped(i, j) == {k \in RestConns : i <= k /\ k < j}

(* The for loop of monitorBalancesREST from account i to its next await:   *)
(* unknown exchanges are passed over, the group record of the first known  *)
(* one is created if absent, and the loop suspends at loadMarkets.         *)
RestLoopFrom(r, i) ==
    LET j == NextKnown(i)
        failed == r.failed \cup Skipped(i, j)
    IN  IF j > Len(RestAccounts)
        THEN [r EXCEPT !.startup = "done", !.next = j, !.failed = failed]
        ELSE LET account == RestAccounts[j]
                 g == account.groupName
                 id == NewObj(r.objs)
             IN  IF Has(r.balancesObj, g)
                 THEN [r EXCEPT !.startup = "loadMarkets", !.next = j, !.failed = failed]
                 ELSE [r EXCEPT !.startup = "loadMarkets", !.next = j, !.failed = failed,
                                !.objs = Put(r.objs, id, EmptyObj),
                                !.balancesObj =
                                    Put(r.balancesObj, g,
                                        [exchange |-> g, balances |-> id,
                                         baseCurrency |-> account.baseCurrency,
                                         total |-> Zero])]

\* monitorBalancesREST is called
MonitorBalancesREST ==
    /\ UNCHANGED <<loopVars, passVars, callVars, tg, stream>>
    /\ rest.startup = "new"
    /\ rest' = RestLoopFrom(rest, 1)

(* await exchange.loadMarkets() settles: a throw rejects the promise of    *)
(* monitorBalancesREST (nothing in it catches), a return arms the interval *)
(* and goes on with the next account.                                      *)
LoadMarkets ==
    /\ UNCHANGED <<loopVars, passVars, callVars, tg, stream>>
    /\ rest.startup = "loadMarkets"
    /\ \E throws \in BOOLEAN :
          IF throws
          THEN rest' = [rest EXCEPT !.startup = "rejected",
                                    !.failed = @ \cup {rest.next}, !.last = NoEvent]
          ELSE rest' = RestLoopFrom([rest EXCEPT !.polling = @ \cup {rest.next},
                                                 !.last = NoEvent],
                                    rest.next + 1)

\* the interval of connection c fires: fetchCompleteBalance is awaited
IntervalFires(c) ==
    /\ UNCHANGED <<loopVars, passVars, callVars, tg, stream>>
    /\ c \in rest.polling
    /\ Len(rest.passes) < MaxInFlight
    /\ rest' = [rest EXCEPT !.last = NoEvent,
                   !.passes = Append(@, [conn |-> c, stage |-> "fetch", entries |-> << >>,
                                         i |-> 0, list |-> << >>, assets |-> 0])]

\* balancesObj[groupName].total = ...reduce(...); callback()
RestFinish(r, k, pass) ==
    LET g == RestAccounts[pass.conn].groupName
        balancesObj == [r.balancesObj EXCEPT ![g].total = Total(r.objs[pass.assets])]
        passes == Without(r.passes, k)
    IN  [r EXCEPT !.balancesObj = balancesObj, !.passes = passes,
                  !.objs = Collect(r.objs, balancesObj, passes),
                  !.last = [conn |-> pass.conn, outcome |-> "completed"]]

(* What the pass at position k does from the end of its spot loop on:     *)
(* with positions to fetch it suspends, otherwise it finishes.             *)
RestAfterSpot(r, k, pass) ==
    IF RestExchange(RestAccounts[pass.conn].e).hasFetchPositions
    THEN [r EXCEPT !.passes[k] = [pass EXCEPT !.stage = "positions"], !.last = NoEvent]
    ELSE RestFinish(r, k, pass)

\* processBalanceData throws: the catch of the interval callback logs, no callback()
RestReject(r, k, pass) ==
    LET passes == Without(r.passes, k)
    IN  [r EXCEPT !.passes = passes, !.objs = Collect(r.objs, r.balancesObj, passes),
                  !.last = [conn |-> pass.conn, outcome |-> "rejected"]]

\* the spot loop of the pass at position k, resumed at entry i with its assets as given
RestResume(r, k, pass, i, assets) ==
    LET account == RestAccounts[pass.conn]
        scan == RestScan(pass.entries, i, assets, account.baseCurrency,
                         RestExchange(account.e).markets)
        r1 == [r EXCEPT !.objs[pass.assets] = scan.assets]
        p1 == [pass EXCEPT !.stage = scan.stage, !.i = scan.i]
    IN  IF scan.stage = "spotDone"
        THEN RestAfterSpot(r1, k, p1)
        ELSE [r1 EXCEPT !.passes[k] = p1, !.last = NoEvent]

(* fetchCompleteBalance settles and processBalanceData starts: the group   *)
(* record gets a new, empty asset object, which the pass fills.            *)
FetchCompleteBalance(k) ==
    /\ UNCHANGED <<loopVars, passVars, callVars, tg, stream>>
    /\ k \in 1..Len(rest.passes)
    /\ rest.passes[k].stage = "fetch"
    /\ \E answer \in RestBalanceAnswers(RestAccounts[rest.passes[k].conn].e) :
          LET pass == rest.passes[k]
              g == RestAccounts[pass.conn].groupName
              id == NewObj(rest.objs)
              r1 == [rest EXCEPT !.objs = Put(rest.objs, id, EmptyObj),
                                 !.balancesObj[g].balances = id]
              p1 == [pass EXCEPT !.entries = UsdcFirst(answer), !.assets = id]
          IN  rest' = RestResume([r1 EXCEPT !.passes[k] = p1], k, p1, 1, EmptyObj)

\* await exchange.fetchTicker(marketId) settles for the entry the pass waits on
RestFetchTicker(k) ==
    /\ UNCHANGED <<loopVars, passVars, callVars, tg, stream>>
    /\ k \in 1..Len(rest.passes)
    /\ rest.passes[k].stage = "ticker"
    /\ \E ticker \in RestTickerAnswers :
          LET pass == rest.passes[k]
              account == RestAccounts[pass.conn]
              entry == pass.entries[pass.i]
              pairs == PossiblePairs(entry.currency, account.baseCurrency)
              m == FirstMarket(RestExchange(account.e).markets, pairs)
              price == TickerPrice(ticker, pairs[m], account.baseCurrency)
          IN  rest' = IF ticker.throws
                      THEN RestReject(rest, k, pass)
                      ELSE RestResume(rest, k, pass, pass.i + 1,
                                      RestPriced(rest.objs[pass.assets], entry, price))

\* await fetchPriceFromAlternativeExchange(...) settles; null takes `continue`
RestFetchAlt(k) ==
    /\ UNCHANGED <<loopVars, passVars, callVars, tg, stream>>
    /\ k \in 1..Len(rest.passes)
    /\ rest.passes[k].stage = "alt"
    /\ \E alts \in RestAltAnswers :
          LET pass == rest.passes[k]
              entry == pass.entries[pass.i]
              price == RestAltPriceFrom(1, entry.currency,
                                        RestAccounts[pass.conn].baseCurrency, alts)
          IN  rest' = RestResume(rest, k, pass, pass.i + 1,
                                 RestPriced(rest.objs[pass.assets], entry, price))

\* the loop over the positions of the pass at position k, resumed at position i
RestResumePositions(r, k, pass, list, i) ==
    LET scan == RestScanPositions(list, i)
        p1 == [pass EXCEPT !.stage = scan.stage, !.i = scan.i, !.list = list]
    IN  IF scan.stage = "end"
        THEN RestFinish(r, k, p1)
        ELSE [r EXCEPT !.passes[k] = p1, !.last = NoEvent]

\* await exchange.fetchPositions() settles; a throw is caught and logged
RestFetchPositions(k) ==
    /\ UNCHANGED <<loopVars, passVars, callVars, tg, stream>>
    /\ k \in 1..Len(rest.passes)
    /\ rest.passes[k].stage = "positions"
    /\ \E positions \in RestPositionAnswers :
          LET pass == rest.passes[k]
          IN  rest' = IF positions.throws
                      THEN RestFinish(rest, k, pass)
                      ELSE RestResumePositions(rest, k, pass, positions.list, 1)

(* await exchange.fetchTicker(position.symbol) settles: a throw leaves the *)
(* loop through the catch around it, a return records the futures asset.   *)
RestPositionTicker(k) ==
    /\ UNCHANGED <<loopVars, passVars, callVars, tg, stream>>
    /\ k \in 1..Len(rest.passes)
    /\ rest.passes[k].stage = "posTicker"
    /\ \E throws \in BOOLEAN :
          LET pass == rest.passes[k]
              position == pass.list[pass.i]
              UPNL == JsOr(position.unrealizedPnl, Zero)
              r1 == [rest EXCEPT !.objs[pass.assets] =
                        Put(@, position.symbol, FuturesAsset(position, UPNL))]
          IN  rest' = IF throws
                      THEN RestFinish(rest, k, pass)
                      ELSE RestResumePositions(r1, k, pass, pass.list, pass.i + 1)

RestNext ==
    \/ MonitorBalancesREST
    \/ LoadMarkets
    \/ \E c \in RestConns : IntervalFires(c)
    \/ \E k \in 1..MaxInFlight :
          \/ FetchCompleteBalance(k)
          \/ RestFetchTicker(k)
          \/ RestFetchAlt(k)
          \/ RestFetchPositions(k)
          \/ RestPositionTicker(k)

InitRest == LoopInit /\ PassIdle /\ CallIdle /\ RestInit /\ tg = "off" /\ stream = "off"
SpecRest == InitRest /\ [][RestNext]_vars

----------------------------------------------------------------------------
(* The Telegram module (class TelegramModule), taken alone, with the admin *)
(* message and one user.  Its asynchronous calls are threads: "main" runs  *)
(* initialize and then the scheduler chain, "adminRetry" and "userRetry"   *)
(* run the calls made by the rate-limit retry timers, "other" is any       *)
(* further caller of the exported updateMessages.  A thread is a program   *)
(* counter pc, a stack ret of the labels it returns to, and its locals; it *)
(* runs from one await to the next in one step.  The awaits are "edit"     *)
(* (the promise of enqueueEdit), "send" (bot.sendMessage), "config"        *)
(* (updateConfig) and "timer" (the scheduler's setTimeout).                *)
(* A messageInfo is an object with identity: tg.objs maps object ids to    *)
(* [messageId, failureCount], tg.userMessages and the locals hold ids.     *)

TgThreads == {"main", "adminRetry", "userRetry", "other"}

\* this.MAX_FAILURES = 5
MAX_FAILURES == 5

\* retry timers of one kind that may be pending at once
MaxTimers == 1

\* what bot.editMessageText may answer: done, 400 message to edit not found,
\* 429 with and without a retry_after, any other error
EditOutcomes == {"ok", "notFound", "tooManyRetry", "tooManyNoRetry", "other"}

\* the labels at which a thread is suspended or not running
AwaitLabels == {"new", "idle", "dead", "timer", "edit", "send", "config"}

NoLocals == [pc |-> "idle", ret |-> << >>, info |-> 0, hinfo |-> 0, fmt |-> "none",
             err |-> "none", prep |-> FALSE, threw |-> FALSE, sent |-> 0]

\* nothing to report of the step just taken
NoTgEvent == [skipped |-> FALSE, replacement |-> 0, started |-> -1]

\* the configurations of config.json: a stored admin message id or none, a stored
\* user message or none
TgConfigs ==
    {[adminMessageId |-> a, userMessage |-> m] :
        a \in {0, 1},
        m \in {[messageId |-> 0, failureCount |-> 0],
               [messageId |-> 1, failureCount |-> 0]}}

(* What the surroundings may still do in a run of the model: the number   *)
(* of 429 answers, of 400 "message to edit not found" answers, of failing  *)
(* bot.sendMessage calls and of further callers of updateMessages that    *)
(* are left; unbounded names those of which any number is left.            *)
MaxRateLimits == 2
MaxNotFound == 1
MaxSendFailures == 1
MaxOtherCalls == 1

Contended == [rateLimits |-> MaxRateLimits, notFound |-> 0,
              sendFailures |-> 0, otherCalls |-> 0, unbounded |-> {}]
Overlapping == [rateLimits |-> 0, notFound |-> MaxNotFound,
                sendFailures |-> MaxSendFailures, otherCalls |-> MaxOtherCalls,
                unbounded |-> {"otherCalls"}]
Failing == [rateLimits |-> 0, notFound |-> 0,
            sendFailures |-> MaxSendFailures, otherCalls |-> 0,
            unbounded |-> {"notFound"}]

Left(budget, kind) == kind \in budget.unbounded \/ budget[kind] # 0
Spend(budget, kind) ==
    IF kind \in budget.unbounded THEN budget ELSE [budget EXCEPT ![kind] = @ - 1]

\* the budget after bot.editMessageText answered with outcome
AfterOutcome(budget, outcome) ==
    CASE outcome \in {"tooManyRetry", "tooManyNoRetry"} ->
            Spend(budget, "rateLimits")
      [] outcome = "notFound" -> Spend(budget, "notFound")
      [] OTHER -> budget

\* the answers bot.editMessageText may still give
Answers(budget) ==
    {o \in EditOutcomes :
        /\ o \in {"tooManyRetry", "tooManyNoRetry"} => Left(budget, "rateLimits")
        /\ o = "notFound" => Left(budget, "notFound")}

TgInit(budget) ==
    tg = [budget |-> budget, threads |-> [t \in TgThreads |->
                          IF t = "main" THEN [NoLocals EXCEPT !.pc = "new"] ELSE NoLocals],
          updateInProgress |-> FALSE, editQueue |-> << >>, isProcessingQueue |-> FALSE,
          inFlight |-> {}, adminMessageId |-> 0, retryAdminCount |-> 0,
          lastAdminMessage |-> "none", userMessages |-> 0, objs |-> EmptyObj,
          retryUserCounts |-> 0, lastUserMessages |-> "none", balances |-> "none",
          timers |-> [admin |-> 0, user |-> 0], event |-> NoTgEvent]

(* Message ids are per chat.  The ids of the chat of target that the       *)
(* module or a pending edit refers to, and an id bot.sendMessage has not   *)
(* returned before in that chat.                                           *)
KnownMessages(s, target) ==
    (IF target = "admin" THEN {s.adminMessageId}
     ELSE {s.objs[o].messageId : o \in DOMAIN s.objs}
              \cup {s.threads[t].sent : t \in TgThreads})
        \cup {s.editQueue[k].messageId :
                 k \in {j \in 1..Len(s.editQueue) : s.editQueue[j].target = target}}
        \cup {op.messageId : op \in {x \in s.inFlight : x.target = target}}

FreshMessage(s, target) ==
    CHOOSE id \in 1..(Cardinality(KnownMessages(s, target)) + 1) :
        id \notin KnownMessages(s, target)

\* a new messageInfo object
NewInfo(s) ==
    CHOOSE o \in 1..(Cardinality(DOMAIN s.objs) + 1) : o \notin DOMAIN s.objs

\* messageInfo objects nothing refers to are gone
TgCollect(s) ==
    LET used == {s.userMessages} \cup {s.threads[t].info : t \in TgThreads}
                    \cup {s.threads[t].hinfo : t \in TgThreads}
    IN  [s EXCEPT !.objs = [o \in DOMAIN s.objs \cap used |-> s.objs[o]]]

Goto(s, t, label) == [s EXCEPT !.threads[t].pc = label]

\* call the routine at label, to return to back
Call(s, t, label, back) ==
    [s EXCEPT !.threads[t].pc = label, !.threads[t].ret = <<back>> \o @]

Return(s, t) ==
    [s EXCEPT !.threads[t].pc = Head(s.threads[t].ret), !.threads[t].ret = Tail(@)]

\* suspend at an await, to go on at label back when it settles
Await(s, t, await, back) == Call(s, t, await, back)

\* the stack from its first occurrence of label on
RECURSIVE From(_, _)
From(stack, label) ==
    IF stack = << >> \/ Head(stack) = label THEN stack ELSE From(Tail(stack), label)

(* An exception leaves the calls in progress up to the try of              *)
(* updateMessages; with none around it the async call of the thread        *)
(* rejects: initialize never reaches startScheduler, a timer call ends.    *)
Throw(s, t) ==
    LET handler == From(s.threads[t].ret, "runFinally")
    IN  IF handler # << >>
        THEN [s EXCEPT !.threads[t].pc = "runFinally", !.threads[t].ret = Tail(handler),
                       !.threads[t].threw = TRUE]
        ELSE [s EXCEPT !.threads[t] =
                 [NoLocals EXCEPT !.pc = IF t = "main" THEN "dead" ELSE "idle"]]

(* An operation carries its rank: the number of operations enqueued       *)
(* before it that have not started yet.  When an operation starts, the     *)
(* ones it leaves waiting that were enqueued after it move up by one.      *)
Overtaken(queue, rank) ==
    [k \in 1..Len(queue) |->
        IF queue[k].rank > rank THEN [queue[k] EXCEPT !.rank = @ - 1] ELSE queue[k]]

\* a queue that starts an operation whether or not one is executing
ProcessQueueUnguarded(s) ==
    IF s.editQueue = << >> THEN s
    ELSE [s EXCEPT !.isProcessingQueue = TRUE,
                   !.inFlight = @ \cup {Head(s.editQueue)},
                   !.editQueue = Overtaken(Tail(@), Head(s.editQueue).rank),
                   !.event.started = Head(s.editQueue).rank]

\* processQueue up to its await: editQueue.shift() and the call of editFunction
ProcessQueue(s) ==
    IF s.isProcessingQueue \/ s.editQueue = << >> THEN s
    ELSE [s EXCEPT !.isProcessingQueue = TRUE,
                   !.inFlight = @ \cup {Head(s.editQueue)},
                   !.editQueue = Overtaken(Tail(@), Head(s.editQueue).rank),
                   !.event.started = Head(s.editQueue).rank]

\* enqueueEdit: editQueue.push({editFunction, resolve, reject}); processQueue()
EnqueueEdit(s, t, target, messageId) ==
    ProcessQueue([s EXCEPT !.editQueue =
        Append(@, [by |-> t, target |-> target, messageId |-> messageId,
                   rank |-> Len(s.editQueue)])])

\* a processQueue whose reset is at the end of the try: a rejected edit leaves the flag set
FinallyAfterSuccess(s, outcome) ==
    IF outcome = "ok" THEN ProcessQueue([s EXCEPT !.isProcessingQueue = FALSE]) ELSE s

\* finally { this.isProcessingQueue = false; this.processQueue(); }
Finally(s, outcome) == ProcessQueue([s EXCEPT !.isProcessingQueue = FALSE])

\* handleEditFailure after sendUserMessage: messageInfo.failureCount = 0;
\* this.userMessages[userId] = messageInfo
HandleFailUserReset(s, t) ==
    Return([s EXCEPT !.objs[s.threads[t].hinfo].failureCount = 0,
                     !.userMessages = s.threads[t].hinfo,
                     !.event.replacement = s.threads[t].sent,
                     !.threads[t].hinfo = 0, !.threads[t].sent = 0], t)

\* an updateMessages that resets the flag at the end of its try and not in a finally
RunFinallyAfterSuccess(s, t) ==
    Return([s EXCEPT !.updateInProgress = s.threads[t].threw,
                     !.threads[t].threw = FALSE], t)

\* finally { this.updateInProgress = false; }
RunFinally(s, t) ==
    Return([s EXCEPT !.updateInProgress = FALSE, !.threads[t].threw = FALSE], t)

(* The synchronous code of thread t at its label.                          *)
Step(s, t) ==
    LET th == s.threads[t]
    IN  CASE th.pc = "initAdmin" ->
               \* initializeAdminMessage
               IF s.adminMessageId # 0
               THEN Await(EnqueueEdit(s, t, "admin", s.adminMessageId), t,
                          "edit", "initAdminEdited")
               ELSE Call(s, t, "sendAdmin", "initUsers")
          [] th.pc = "initAdminEdited" ->
               IF th.err = "ok"
               THEN Goto([s EXCEPT !.lastAdminMessage = "init"], t, "initUsers")
               ELSE Call(s, t, "handleFailAdmin", "initUsers")
          [] th.pc = "sendAdmin" -> Await(s, t, "send", "sentAdmin")
          [] th.pc = "sentAdmin" ->
               \* sendAdminMessage after bot.sendMessage: a throw is caught and logged
               IF th.err = "ok"
               THEN Await([s EXCEPT !.adminMessageId = FreshMessage(s, "admin"),
                                    !.lastAdminMessage = "init"], t, "config", "ret")
               ELSE Return(s, t)
          [] th.pc = "handleFailAdmin" ->
               \* handleEditFailure('admin')
               IF s.retryAdminCount + 1 >= MAX_FAILURES
               THEN Call([s EXCEPT !.retryAdminCount = @ + 1], t,
                         "sendAdmin", "handleFailAdminReset")
               ELSE Return([s EXCEPT !.retryAdminCount = @ + 1], t)
          [] th.pc = "handleFailAdminReset" -> Return([s EXCEPT !.retryAdminCount = 0], t)
          [] th.pc = "initUsers" ->
               \* initializeUserMessages, for the one user
               IF s.objs[s.userMessages].messageId # 0
               THEN Await(EnqueueEdit(s, t, "user", s.objs[s.userMessages].messageId), t,
                          "edit", "initUserEdited")
               ELSE Call(s, t, "sendUser", "startScheduler")
          [] th.pc = "initUserEdited" ->
               IF th.err = "ok"
               THEN Goto([s EXCEPT !.lastUserMessages = "init"], t, "startScheduler")
               ELSE Call(s, t, "handleFailUser", "startScheduler")
          [] th.pc = "handleFailUser" ->
               \* handleEditFailure('user', userId): messageInfo is the stored object
               LET hinfo == s.userMessages
                   s1 == [s EXCEPT !.objs[hinfo].failureCount = @ + 1,
                                   !.threads[t].hinfo = hinfo]
               IN  IF s1.objs[hinfo].failureCount >= MAX_FAILURES
                   THEN Call(s1, t, "sendUser", "handleFailUserReset")
                   ELSE Return([s1 EXCEPT !.threads[t].hinfo = 0], t)
          [] th.pc = "handleFailUserReset" -> HandleFailUserReset(s, t)
          [] th.pc = "sendUser" -> Await(s, t, "send", "sentUser")
          [] th.pc = "sentUser" ->
               (* sendUserMessage after bot.sendMessage.  Its catch logs   *)
               (* `id`, which is declared inside the try: the catch itself *)
               (* throws a ReferenceError.                                 *)
               IF th.err = "ok"
               THEN LET o == NewInfo(s)
                        id == FreshMessage(s, "user")
                    IN  Await([s EXCEPT !.objs = Put(s.objs, o,
                                            [messageId |-> id, failureCount |-> 0]),
                                        !.userMessages = o,
                                        !.lastUserMessages = "init",
                                        !.threads[t].sent =
                                            IF Head(th.ret) = "handleFailUserReset"
                                            THEN id ELSE 0], t, "config", "ret")
               ELSE Throw(s, t)
          [] th.pc = "startScheduler" -> Goto(s, t, "timer")
          [] th.pc = "scheduleNextRun" -> Goto(s, t, "timer")
          [] th.pc = "updateMessages" ->
               IF s.updateInProgress
               THEN Return([s EXCEPT !.event.skipped = TRUE], t)
               ELSE LET s1 == [s EXCEPT !.updateInProgress = TRUE]
                    IN  IF s.balances = "none" THEN Goto(s1, t, "runFinally")
                        ELSE IF th.prep
                        THEN Goto([s1 EXCEPT !.threads[t].threw = TRUE], t, "runFinally")
                        ELSE Call([s1 EXCEPT !.threads[t].ret = <<"runFinally">> \o @], t,
                                  "updateAdmin", "updateUsers")
          [] th.pc = "runFinally" -> RunFinally(s, t)
          [] th.pc = "updateAdmin" ->
               \* updateAdminMessage
               IF s.lastAdminMessage = s.balances THEN Return(s, t)
               ELSE IF s.adminMessageId = 0 THEN Call(s, t, "sendAdmin", "ret")
               ELSE Await(EnqueueEdit([s EXCEPT !.threads[t].fmt = s.balances], t,
                                      "admin", s.adminMessageId), t, "edit", "adminEdited")
          [] th.pc = "adminEdited" ->
               CASE th.err = "ok" ->
                      Return([s EXCEPT !.lastAdminMessage = th.fmt,
                                       !.retryAdminCount = 0], t)
                 [] th.err = "tooManyRetry" ->
                      IF s.retryAdminCount < MAX_FAILURES
                      THEN Return([s EXCEPT !.retryAdminCount = @ + 1,
                                            !.timers.admin = @ + 1], t)
                      ELSE Call(s, t, "handleFailAdmin", "handleFailAdminReset")
                 [] th.err \in {"notFound", "tooManyNoRetry"} ->
                      Call(s, t, "handleFailAdmin", "ret")
                 [] OTHER -> Return(s, t)
          [] th.pc = "updateUsers" ->
               \* updateUserMessages and updateUserMessagesForUser, for the one user
               LET info == s.userMessages
                   s1 == [s EXCEPT !.threads[t].info = info,
                                   !.threads[t].fmt = s.balances]
               IN  IF s.objs[info].messageId = 0
                   THEN Call([s EXCEPT !.threads[t].info = 0], t, "sendUser", "ret")
                   ELSE IF s.lastUserMessages = s.balances THEN Return(s, t)
                   ELSE Await(EnqueueEdit(s1, t, "user", s.objs[info].messageId), t,
                              "edit", "userEdited")
          [] th.pc = "userEdited" ->
               CASE th.err = "ok" ->
                      Goto([s EXCEPT !.lastUserMessages = th.fmt,
                                     !.retryUserCounts = 0], t, "userStore")
                 [] th.err = "tooManyRetry" ->
                      IF s.retryUserCounts < MAX_FAILURES
                      THEN Goto([s EXCEPT !.retryUserCounts = @ + 1,
                                          !.timers.user = @ + 1], t, "userStore")
                      ELSE Call(s, t, "handleFailUser", "retryUserReset")
                 [] th.err \in {"notFound", "tooManyNoRetry"} ->
                      Call(s, t, "handleFailUser", "userStore")
                 [] OTHER -> Goto(s, t, "userStore")
          [] th.pc = "retryUserReset" ->
               Goto([s EXCEPT !.retryUserCounts = 0], t, "userStore")
          [] th.pc = "userStore" ->
               \* this.userMessages[id] = messageInfo
               Return([s EXCEPT !.userMessages = th.info, !.threads[t].info = 0], t)
          [] th.pc = "ret" -> Return(s, t)
          [] th.pc = "end" -> [s EXCEPT !.threads[t] = NoLocals]

\* the locals of thread t that are dead at its await
Suspended(s, t) ==
    [s EXCEPT !.threads[t].err = "none", !.threads[t].prep = FALSE,
              !.threads[t].fmt = IF s.threads[t].pc = "edit" THEN @ ELSE "none"]

\* thread t runs to its next await
RECURSIVE Run(_, _)
Run(s, t) ==
    IF s.threads[t].pc \in AwaitLabels THEN TgCollect(Suspended(s, t))
    ELSE CHOOSE after \in {Run(next, t) : next \in {Step(s, t)}} : TRUE

\* the await of thread t settles with err, and the thread goes on
Resume(s, t, err) == Run(Return([s EXCEPT !.threads[t].err = err], t), t)

\* the state a step starts from
Quiet(s) == [s EXCEPT !.event = NoTgEvent]

\* initialize(tgConfig, pnlConfig) with an enabled, complete configuration
Initialize ==
    /\ UNCHANGED <<loopVars, passVars, callVars, rest, stream>>
    /\ tg.threads["main"].pc = "new"
    /\ \E config \in TgConfigs :
          tg' = Run([Quiet(tg) EXCEPT !.adminMessageId = config.adminMessageId,
                                      !.objs = Put(EmptyObj, 1, config.userMessage),
                                      !.userMessages = 1,
                                      !.lastUserMessages = "none",
                                      !.retryUserCounts = 0,
                                      !.threads["main"].pc = "initAdmin"], "main")

(* bot.editMessageText of the executing operation settles: processQueue    *)
(* resolves or rejects the promise of enqueueEdit, runs its finally, and   *)
(* then the caller of enqueueEdit goes on.  A 429 that carries a          *)
(* retry_after is answered while another retry timer can be pending.       *)
EditSettles ==
    /\ UNCHANGED <<loopVars, passVars, callVars, rest, stream>>
    /\ \E op \in tg.inFlight, outcome \in Answers(tg.budget) :
          /\ outcome = "tooManyRetry" =>
                tg.timers[IF op.target = "admin" THEN "admin" ELSE "user"] < MaxTimers
          /\ tg' = Resume(Finally([Quiet(tg) EXCEPT
                                      !.inFlight = @ \ {op},
                                      !.budget = AfterOutcome(@, outcome)], outcome),
                          op.by, outcome)

\* bot.sendMessage settles for thread t
SendSettles(t) ==
    /\ UNCHANGED <<loopVars, passVars, callVars, rest, stream>>
    /\ tg.threads[t].pc = "send"
    /\ \E err \in {"ok", "other"} :
          /\ err = "other" => Left(tg.budget, "sendFailures")
          /\ tg' = Resume([Quiet(tg) EXCEPT !.budget =
                                IF err = "other" THEN Spend(@, "sendFailures") ELSE @],
                          t, err)

\* updateConfig settles for thread t (it catches its own errors)
ConfigSettles(t) ==
    /\ UNCHANGED <<loopVars, passVars, callVars, rest, stream>>
    /\ tg.threads[t].pc = "config"
    /\ tg' = Resume(Quiet(tg), t, "ok")

(* The timer of scheduleNextRun fires: updateMessages, then                *)
(* scheduleNextRun.  prepareBalancesForDisplay may throw.                  *)
SchedulerFires ==
    /\ UNCHANGED <<loopVars, passVars, callVars, rest, stream>>
    /\ tg.threads["main"].pc = "timer"
    /\ \E prep \in BOOLEAN :
          tg' = Run([Quiet(tg) EXCEPT !.threads["main"].pc = "updateMessages",
                                      !.threads["main"].ret = <<"scheduleNextRun">>,
                                      !.threads["main"].prep = prep], "main")

\* updateMessages is called from elsewhere
OtherCalls ==
    /\ UNCHANGED <<loopVars, passVars, callVars, rest, stream>>
    /\ tg.threads["main"].pc \notin {"new", "dead"}
    /\ tg.threads["other"].pc = "idle"
    /\ Left(tg.budget, "otherCalls")
    /\ \E prep \in BOOLEAN :
          tg' = Run([Quiet(tg) EXCEPT !.budget = Spend(@, "otherCalls"),
                                      !.threads["other"].pc = "updateMessages",
                                      !.threads["other"].ret = <<"end">>,
                                      !.threads["other"].prep = prep], "other")

\* a retry timer fires: updateAdminMessage()
AdminRetryFires ==
    /\ UNCHANGED <<loopVars, passVars, callVars, rest, stream>>
    /\ tg.timers.admin > 0
    /\ tg.threads["adminRetry"].pc = "idle"
    /\ tg' = Run([Quiet(tg) EXCEPT !.timers.admin = @ - 1,
                                   !.threads["adminRetry"].pc = "updateAdmin",
                                   !.threads["adminRetry"].ret = <<"end">>], "adminRetry")

\* a retry timer fires: updateUserMessagesForUser(id)
UserRetryFires ==
    /\ UNCHANGED <<loopVars, passVars, callVars, rest, stream>>
    /\ tg.timers.user > 0
    /\ tg.threads["userRetry"].pc = "idle"
    /\ tg' = Run([Quiet(tg) EXCEPT !.timers.user = @ - 1,
                                   !.threads["userRetry"].pc = "updateUsers",
                                   !.threads["userRetry"].ret = <<"end">>], "userRetry")

\* update(balances): this.balances = { ...balances }, with balances that differ
TgUpdate ==
    /\ UNCHANGED <<loopVars, passVars, callVars, rest, stream>>
    /\ tg.threads["main"].pc # "new"
    /\ \E b \in {"a", "b"} \ {tg.balances} : tg' = [Quiet(tg) EXCEPT !.balances = b]

\* the scheduler chain and the retry timers
TgNext ==
    \/ Initialize
    \/ EditSettles
    \/ \E t \in TgThreads : SendSettles(t) \/ ConfigSettles(t)
    \/ SchedulerFires
    \/ AdminRetryFires
    \/ UserRetryFires
    \/ TgUpdate

\* the module under contention for the edit queue: 429 answers and their retry timers
InitTg ==
    LoopInit /\ PassIdle /\ CallIdle /\ rest = "off" /\ TgInit(Contended) /\ stream = "off"
SpecTg == InitTg /\ [][TgNext]_vars

\* the scheduler chain and further callers of updateMessages
TgNextCalled ==
    \/ Initialize
    \/ EditSettles
    \/ \E t \in TgThreads : SendSettles(t) \/ ConfigSettles(t)
    \/ SchedulerFires
    \/ OtherCalls
    \/ TgUpdate

\* the module with callers of updateMessages besides the scheduler
InitTgCalled ==
    LoopInit /\ PassIdle /\ CallIdle /\ rest = "off" /\ TgInit(Overlapping)
             /\ stream = "off"
SpecTgCalled == InitTgCalled /\ [][TgNextCalled]_vars

\* the scheduler chain alone
TgNextAlone ==
    \/ Initialize
    \/ EditSettles
    \/ \E t \in TgThreads : SendSettles(t) \/ ConfigSettles(t)
    \/ SchedulerFires
    \/ TgUpdate

\* the module with messages that keep vanishing: any number of 400 answers
InitTgFailing ==
    LoopInit /\ PassIdle /\ CallIdle /\ rest = "off" /\ TgInit(Failing) /\ stream = "off"
SpecTgFailing == InitTgFailing /\ [][TgNextAlone]_vars

\* the scenario of SpecTg with one 429, every executing edit eventually resolving
\* or rejecting
MaxFairRateLimits == 1
InitTgFair ==
    LoopInit /\ PassIdle /\ CallIdle /\ rest = "off" /\ stream = "off"
             /\ TgInit([Contended EXCEPT !.rateLimits = MaxFairRateLimits])
SpecTgFair == InitTgFair /\ [][TgNext]_vars /\ WF_vars(EditSettles)

-----------------------------------------------------------------------------
(* The frequency-aligned Sheets writer (sheets_stream.js, writeBalances).   *)
(* Time is a clock in ticks; an invocation of writeBalances is a record    *)
(* with its await (pc), its currentTime (now, 0 before it is taken) and     *)
(* whether it was the first invocation after start.  streamBalances does    *)
(* not await writeBalances, so invocations overlap.                         *)

\* config.googleAPI.frequency, in ticks
Frequency == 2
\* the clock at start, and the last tick of a run of the model
StartClock == 1
MaxClock == 6
\* invocations in flight, and rows of a run of the model
MaxCalls == 2
MaxRows == 3

StreamInit ==
    stream = [clock |-> StartClock, scheduledNextWriteTime |-> 0, invoked |-> FALSE,
              calls |-> << >>, rows |-> << >>]

\* calculateNextWriteTime(currentTime, frequency)
CalculateNextWriteTime(now) == (now \div Frequency) * Frequency + Frequency

\* scheduledNextWriteTime after shouldWrite(currentTime, frequency)
ScheduledAfterShouldWrite(scheduled, now) ==
    IF scheduled = 0 THEN CalculateNextWriteTime(now) ELSE scheduled

\* shouldWrite(currentTime, frequency)
ShouldWrite(scheduled, now) == now >= ScheduledAfterShouldWrite(scheduled, now)

\* calls without its k-th invocation
Settled(calls, k) == [n \in 1..(Len(calls) - 1) |-> IF n < k THEN calls[n] ELSE calls[n + 1]]

\* time passes
Tick ==
    /\ UNCHANGED <<loopVars, passVars, callVars, rest, tg>>
    /\ stream.clock < MaxClock
    /\ stream' = [stream EXCEPT !.clock = @ + 1]

\* streamBalances(balances): writeBalances starts and awaits authorize
StreamBalances ==
    /\ UNCHANGED <<loopVars, passVars, callVars, rest, tg>>
    /\ Len(stream.calls) < MaxCalls
    /\ Len(stream.rows) < MaxRows
    /\ stream' = [stream EXCEPT
                     !.invoked = TRUE,
                     !.calls = Append(@, [pc |-> "authorize", now |-> 0,
                                          first |-> ~stream.invoked])]

\* authorize settles for the k-th invocation; a rejection ends the invocation
AuthorizeSettles(k) ==
    /\ UNCHANGED <<loopVars, passVars, callVars, rest, tg>>
    /\ k <= Len(stream.calls)
    /\ stream.calls[k].pc = "authorize"
    /\ \E ok \in BOOLEAN :
          stream' = IF ok THEN [stream EXCEPT !.calls[k].pc = "lookup"]
                    ELSE [stream EXCEPT !.calls = Settled(@, k)]

(* findSpreadsheetIdByName settles for the k-th invocation, which then     *)
(* throws (no spreadsheet), returns (shouldWrite is false) or takes         *)
(* currentTime and awaits the append.                                       *)
LookupSettles(k) ==
    /\ UNCHANGED <<loopVars, passVars, callVars, rest, tg>>
    /\ k <= Len(stream.calls)
    /\ stream.calls[k].pc = "lookup"
    /\ \E found \in BOOLEAN :
          LET now == stream.clock
              scheduled == ScheduledAfterShouldWrite(stream.scheduledNextWriteTime, now)
          IN  stream' =
                 IF ~found THEN [stream EXCEPT !.calls = Settled(@, k)]
                 ELSE IF ShouldWrite(stream.scheduledNextWriteTime, now)
                 THEN [stream EXCEPT !.scheduledNextWriteTime = scheduled,
                                     !.calls[k].pc = "append",
                                     !.calls[k].now = now]
                 ELSE [stream EXCEPT !.scheduledNextWriteTime = scheduled,
                                     !.calls = Settled(@, k)]

(* sheets.spreadsheets.values.append settles for the k-th invocation: the  *)
(* row is in the sheet and the next write time is scheduled from the        *)
(* invocation's currentTime, or the append rejected.                        *)
AppendSettles(k) ==
    /\ UNCHANGED <<loopVars, passVars, callVars, rest, tg>>
    /\ k <= Len(stream.calls)
    /\ stream.calls[k].pc = "append"
    /\ \E ok \in BOOLEAN :
          stream' =
             IF ok
             THEN [stream EXCEPT
                     !.rows = Append(@, [timestamp |-> stream.calls[k].now,
                                         first |-> stream.calls[k].first]),
                     !.scheduledNextWriteTime =
                         CalculateNextWriteTime(stream.calls[k].now),
                     !.calls = Settled(@, k)]
             ELSE [stream EXCEPT !.calls = Settled(@, k)]

StreamNext ==
    \/ Tick
    \/ StreamBalances
    \/ \E k \in 1..MaxCalls : AuthorizeSettles(k) \/ LookupSettles(k) \/ AppendSettles(k)

InitStream == LoopInit /\ PassIdle /\ CallIdle /\ rest = "off" /\ tg = "off" /\ StreamInit
SpecStream == InitStream /\ [][StreamNext]_vars

----------------------------------------------------------------------------
(* Properties *)

\* |x| >= 0.01, |x| <= 1e-6 (false of NaN and undefined)
AtLeastCent(x) == x.k = "inf" \/ (x.k = "num" /\ AbsInt(x.n) * 100 >= x.d)
AtMostMicro(x) == x.k = "num" /\ AbsInt(x.n) * 1000000 <= x.d

(* C1.  Under Spec, in every state (the connections are suspended at an    *)
(* await in each of them), for every group of the Global Snapshot, total   *)
(* is the sum of baseValue over the assets in balances, however the passes *)
(* of the connections interleave and whichever of them wrote last.         *)
C1_TotalIsSum ==
    \A g \in DOMAIN balances : balances[g].total = Total(balances[g].balances)

\* both connections of "Main Fund" have written; A is suspended inside its
\* pass (the fund fetches) and B before its callback; several assets are held
C1_Witness ==
    /\ wrote["A"] /\ wrote["B"]
    /\ pc["A"] = "fund" /\ pc["B"] = "notify"
    /\ Cardinality(DOMAIN balances["Main Fund"].balances) >= 2

(* C2.  Under SpecPass, after any sequence of passes, every asset in the   *)
(* group's balances (spot, futures, the valuation currency) has            *)
(* |baseValue| >= 0.01.                                                    *)
C2_NoDust ==
    \A key \in DOMAIN pGroup.balances : AtLeastCent(pGroup.balances[key].baseValue)

\* the cache holds 0.005 of the valuation currency, which is not published,
\* next to a published spot asset and a published position
C2_Witness ==
    /\ Has(pCache, "USD") /\ pCache["USD"] = Num(1, 200)
    /\ ~Has(pGroup.balances, "USD")
    /\ Has(pGroup.balances, "BTC") /\ pGroup.balances["BTC"].type = "spot"
    /\ Has(pGroup.balances, PerpETH) /\ pGroup.balances[PerpETH].type = "futures"

C4_ValuationCurrencyIdentity ==
    (Has(pCache, PassBase) /\ AtLeastCent(pCache[PassBase])) =>
        /\ Has(pGroup.balances, PassBase)
        /\ pGroup.balances[PassBase] =
              [symbol |-> PassBase, amount |-> pCache[PassBase],
               baseValue |-> pCache[PassBase], type |-> "spot"]
        /\ PassBase \notin pProbed

\* USD 100 is published at 100 on an exchange that lists USD/USDT, in a pass
\* that probed ETH and could not price it
C4_Witness ==
    /\ "USD/USDT" \in pMarkets
    /\ Has(pCache, "USD") /\ pCache["USD"] = Num(100, 1)
    /\ Has(pGroup.balances, "USD") /\ pGroup.balances["USD"].baseValue = Num(100, 1)
    /\ "ETH" \in pProbed /\ ~Has(pGroup.balances, "ETH")

\* the candidate symbols of currency c in valuation currency b, and the inverted ones
CandidateSymbols(c, b) ==
    {c \o "/" \o b, b \o "/" \o c, c \o "/USD", "USD/" \o c, c \o "/USDT", "USDT/" \o c}
InvertedSymbols(c, b) == {b \o "/" \o c, "USD/" \o c, "USDT/" \o c}

\* the exchange whose ticker prices c: 0 the primary, i the i-th alternate, -1 none
PricedBy(c, b, markets, ticker, alts) ==
    IF markets \cap CandidateSymbols(c, b) # {} /\ ~ticker.throws THEN 0
    ELSE LET ok == {i \in 1..3 : /\ ~alts[i].throws
                                 /\ alts[i].markets \cap CandidateSymbols(c, b) # {}
                                 /\ ~alts[i].ticker.throws}
         IN  IF ok = {} THEN -1 ELSE CHOOSE i \in ok : \A j \in ok : i <= j

\* the markets and the ticker of the exchange that prices c
PricingMarkets(by, markets, alts) == IF by = 0 THEN markets ELSE alts[by].markets
PricingTicker(by, ticker, alts) == IF by = 0 THEN ticker ELSE alts[by].ticker

\* last if it is a non-zero number, else close
Quoted(ticker) ==
    IF ticker.last.k = "num" /\ ticker.last.n # 0 THEN ticker.last ELSE ticker.close

(* C5.  Under SpecCalls: when every candidate pair that exists on the      *)
(* exchange that prices the currency (the primary, or the first alternate  *)
(* that answers) is an inverted one, and its ticker quotes p > 0, the      *)
(* currency is valued at amount * (1/p) and published.                     *)
C5_PriceInversion ==
    (call.fn = "SpotEntry" /\ result.done) =>
        LET c == call.currency
            b == call.baseCurrency
            by == PricedBy(c, b, call.markets, call.ticker, call.alts)
            p == Quoted(PricingTicker(by, call.ticker, call.alts))
        IN  (/\ by >= 0
             /\ PricingMarkets(by, call.markets, call.alts) \cap CandidateSymbols(c, b)
                    \subseteq InvertedSymbols(c, b)
             /\ p.k = "num" /\ p.n > 0) =>
                /\ result.value.publish
                /\ result.value.asset.baseValue =
                       Num(call.amount.n * p.d, call.amount.d * p.n)

\* only USD/ETH exists, last = 0.0004: 2 ETH are published at 5000
C5_Witness ==
    /\ call = SpotEntryCall("ETH", Num(2, 1), "USD", {"USD/ETH"},
                            Ticker(Num(1, 2500), Undefined), NoAlts)
    /\ result.done /\ result.value.publish
    /\ result.value.asset.baseValue = Num(5000, 1)

\* BTC at 60000 and the valuation currency at par, for the currencies of a cache
ValueOfOthers(cache) ==
    Add(IF Has(cache, "USD") THEN cache["USD"] ELSE Zero,
        IF Has(cache, "BTC") THEN Mul(cache["BTC"], Num(60000, 1)) ELSE Zero)

(* C6.  Under SpecCalls: in a pass whose cache holds ETH, when the primary *)
(* exchange has no candidate pair for ETH and every alternate throws or    *)
(* has no candidate pair, the balances written hold no ETH asset, hold an  *)
(* asset for every other cached currency, and total is their sum.          *)
C6_FallbackExhaustion ==
    (/\ call.fn = "Pass" /\ result.done
     /\ Has(call.balanceCache, "ETH")
     /\ call.markets \cap CandidateSymbols("ETH", "USD") = {}
     /\ \A i \in 1..3 : \/ call.alts[i].throws
                        \/ call.alts[i].markets \cap CandidateSymbols("ETH", "USD") = {}) =>
        /\ ~Has(result.value.balances, "ETH")
        /\ DOMAIN result.value.balances = DOMAIN call.balanceCache \ {"ETH"}
        /\ result.value.total = ValueOfOthers(call.balanceCache)

\* all three alternates throw; USD and BTC are published, ETH is not
C6_Witness ==
    /\ call = PassCall([USD |-> Num(100, 1), ETH |-> Num(2, 1), BTC |-> Num(1, 2)],
                       {"BTC/USD"}, TickerThrows, NoAlts)
    /\ result.done
    /\ DOMAIN result.value.balances = {"USD", "BTC"}
    /\ result.value.total = Num(30100, 1)

(* C7 as stated.  Under SpecCalls: in a pass of either function on an      *)
(* exchange that fetches positions with defaultType swap, every fetched    *)
(* position with non-zero contracts, a known market and                    *)
(* |unrealizedPnl| >= 0.01 is in balances under its symbol with type       *)
(* futures, amount = contracts and baseValue = unrealizedPnl; one with     *)
(* |unrealizedPnl| < 0.01 is absent.                                       *)
C7_FuturesValuation ==
    (/\ call.fn = "Positions" /\ result.done
     /\ call.hasFetchPositions /\ call.defaultType = "swap"
     /\ ~call.positions.throws) =>
        \A i \in 1..Len(call.positions.list) :
            LET position == call.positions.list[i]
                pnl == position.unrealizedPnl
            IN  (position.contracts # Zero /\ position.symbol \in {PerpETH, PerpBTC}) =>
                    /\ AtLeastCent(pnl) =>
                          /\ Has(result.value.balances, position.symbol)
                          /\ result.value.balances[position.symbol] =
                                [symbol |-> position.symbol, amount |-> position.contracts,
                                 baseValue |-> pnl, type |-> "futures"]
                    /\ (pnl.k = "num" /\ ~AtLeastCent(pnl)) =>
                          ~Has(result.value.balances, position.symbol)

\* neither last nor close is a usable price
NoUsablePrice(ticker) ==
    ticker.last \in {Zero, Undefined} /\ ticker.close \in {Zero, Undefined}

(* C8 as stated.  Under SpecCalls: when the ticker that prices a currency  *)
(* has last and close both 0 or undefined, the currency is not published,  *)
(* for a direct and for an inverted pair alike, and the total of the pass  *)
(* is the finite sum of the other assets.                                  *)
C8_NoPriceNoAsset ==
    /\ (call.fn = "SpotEntry" /\ result.done) =>
          LET by == PricedBy(call.currency, call.baseCurrency, call.markets,
                             call.ticker, call.alts)
          IN  (by >= 0 /\ NoUsablePrice(PricingTicker(by, call.ticker, call.alts))) =>
                  ~result.value.publish
    /\ (call.fn = "Pass" /\ result.done) =>
          LET by == PricedBy("ETH", "USD", call.markets, call.ticker, call.alts)
          IN  (by >= 0 /\ NoUsablePrice(PricingTicker(by, call.ticker, call.alts))) =>
                  /\ ~Has(result.value.balances, "ETH")
                  /\ result.value.total = ValueOfOthers(call.balanceCache)

(* C9 as stated.  Under Spec: once A and B, both of group "Main Fund" and  *)
(* holding disjoint currencies, have each written a pass, the group's      *)
(* balances hold the assets of both, whichever wrote last.  Stated on the  *)
(* one asset of A that needs no price: the valuation currency in A's cache *)
(* is in the group's balances with the cached amount.                      *)
C9_SameGroupMerge ==
    (wrote["A"] /\ wrote["B"] /\ Has(balanceCache["A"], "USD")) =>
        /\ Has(balances["Main Fund"].balances, "USD")
        /\ balances["Main Fund"].balances["USD"].amount = balanceCache["A"]["USD"]

(* C10.  Under Spec: a connection whose exchange advertises watchBalance   *)
(* starts in the subscribe loop, awaiting watchBalance; an error raised in *)
(* the subscribe loop (watchBalance, the pass, or the callback) puts it in *)
(* the polling loop; a connection in the polling loop stays in it and      *)
(* never awaits watchBalance again.                                        *)
C10_ConnectionStateMachine ==
    [][\A c \in Conns :
          /\ (pc[c] = "new" /\ pc'[c] \notin {"new", "dead"}) =>
                (ExchangeOf(c).hasWatchBalance =>
                    loop'[c] = "watchBalance" /\ pc'[c] = "watch")
          /\ (~subErr[c] /\ subErr'[c]) =>
                loop[c] = "watchBalance" /\ loop'[c] = "monitor" /\ pc'[c] = "poll"
          /\ loop[c] = "monitor" =>
                loop'[c] = "monitor" /\ pc'[c] # "watch"]_vars

\* A fell back to polling after an error and is inside a polling pass
C10_Witness ==
    /\ subErr["A"] /\ loop["A"] = "monitor" /\ pc["A"] = "fund"

(* C11.  Under SpecFair (every fetch returns or throws): a connection in   *)
(* the polling loop always eventually sleeps and always eventually starts  *)
(* another pass (awaits fetchCompleteBalance), whatever the fetch, the     *)
(* pass or the callback of a tick threw.                                   *)
C11_PollingLiveness ==
    \A c \in Conns :
        /\ (loop[c] = "monitor") ~> (pc[c] = "sleep")
        /\ (pc[c] = "sleep") ~> (pc[c] = "poll")

\* B sleeps after a tick whose pass threw before writing anything
C11_Witness ==
    /\ loop["B"] = "monitor" /\ pc["B"] = "sleep" /\ ~wrote["B"]

(* C12.  Under SpecFair: callback() is invoked by a connection only when   *)
(* its pass has completed, after that pass wrote balances and total (and,  *)
(* on a fund account, the fund fields), and once for that pass; a step in  *)
(* which the balance answer or the pass throws invokes nothing; and every  *)
(* completed pass is followed by its invocation.  (callback is called with *)
(* no argument: the invocation carries nothing but the connection.)        *)
C12_ChangeNotification ==
    /\ [](\A c \in Conns :
            /\ callbacks[c] <= 1
            /\ pc[c] \in {"fund", "notify"} => wrote[c] /\ callbacks[c] = 0)
    /\ [][\A c \in Conns :
            /\ callbacks'[c] > callbacks[c] =>
                  /\ pc[c] = "notify" /\ passObs[c] # NoPass
                  /\ callbacks[c] = 0 /\ callbacks'[c] = 1
            /\ (pc[c] \in {"watch", "poll"} /\ pc'[c] \notin {"fund", "notify"}) =>
                  callbacks'[c] = callbacks[c]
            /\ (pc[c] = "notify" /\ pc'[c] # "notify") => callbacks'[c] = 1]_vars
    /\ \A c \in Conns : (pc[c] = "notify") ~> (callbacks[c] = 1)

\* A is back at watchBalance after a pass and its one callback; B's last
\* tick threw after an earlier pass and callback
C12_Witness ==
    /\ pc["A"] = "watch" /\ wrote["A"] /\ callbacks["A"] = 1
    /\ pc["B"] = "sleep" /\ wrote["B"] /\ callbacks["B"] = 1

(* C13 as stated.  Under SpecFair: callback() is not invoked after a pass  *)
(* that left the group's balances, total and fund fields as they were.     *)
C13_SilentWhenUnchanged ==
    [][\A c \in Conns : callbacks'[c] > callbacks[c] => passObs[c].changed]_vars

(* C13 amended.  Under SpecFair: callback() is invoked after every pass    *)
(* that completes, also after one that left the group's balances, total    *)
(* and fund fields as they were.                                           *)
C13_NotifiedWhenUnchanged ==
    /\ [][\A c \in Conns :
            (pc[c] = "notify" /\ ~passObs[c].changed /\ pc'[c] # "notify") =>
                callbacks'[c] = callbacks[c] + 1]_vars
    /\ \A c \in Conns :
            (pc[c] = "notify" /\ ~passObs[c].changed) ~>
                (callbacks[c] = 1 /\ passObs[c] = NoPass)

\* B has completed a pass on a balance snapshot that changed nothing in the
\* record of its group, and is at its callback
C13_Witness ==
    /\ pc["B"] = "notify" /\ passObs["B"] = PassOn("data", FALSE)
    /\ balances["Main Fund"].balances # EmptyObj

\* the spot assets of a balances mapping
SpotKeys(assets) == {key \in DOMAIN assets : assets[key].type = "spot"}

(* C14.  Under SpecFair: when the balance fetch of a polling tick throws,  *)
(* the tick still runs its pass (on the empty snapshot): the connection's  *)
(* cache is unchanged, the group's spot assets are written anew from that  *)
(* cache (its valuation currency at the cached amount), the loop is not    *)
(* left, the callback is invoked, and the connection sleeps and fetches    *)
(* again.                                                                  *)
C14_FetchFailure ==
    /\ [][\A c \in Conns :
            (pc[c] = "poll" /\ passObs'[c].answer = "throws") =>
                LET g == Account(c).n
                    base == balances[g].baseCurrency
                    written == balances'[g].balances
                IN  /\ balanceCache'[c] = balanceCache[c]
                    /\ pc'[c] \in {"fund", "notify"} /\ loop'[c] = loop[c]
                    /\ SpotKeys(written) \subseteq DOMAIN balanceCache[c]
                    /\ Has(balanceCache[c], base) =>
                          /\ Has(written, base)
                          /\ written[base].amount = balanceCache[c][base]
                          /\ written[base].baseValue = balanceCache[c][base]]_vars
    /\ \A c \in Conns :
          /\ (passObs[c].answer = "throws") ~> (callbacks[c] = 1 /\ pc[c] = "sleep")
          /\ (passObs[c].answer = "throws") ~> (pc[c] = "poll")

\* A, polling, runs a pass after a fetch that threw: its cache still holds
\* USD and ETH, and USD is published again
C14_Witness ==
    /\ loop["A"] = "monitor" /\ passObs["A"].answer = "throws"
    /\ DOMAIN balanceCache["A"] = {"USD", "ETH"}
    /\ Has(balances["Main Fund"].balances, "USD")

\* price resolution for ETH fails in a tick: no exchange has a candidate pair and a ticker
ResolutionFails(markets, tick) ==
    PricedBy("ETH", "USD", markets, tick.ticker, tick.alts) = -1

(* C15.  Under SpecCalls, over two consecutive passes of one connection:   *)
(* when price resolution fails for cached ETH in the first pass (no        *)
(* candidate pair, or the ticker throws, and every alternate fails), that  *)
(* pass publishes no ETH asset and publishes every other cached currency   *)
(* at its value; the cache keeps ETH at its amount; and a second pass      *)
(* whose snapshot does not report ETH and whose resolution quotes p values *)
(* the cached amount at amount * p.                                        *)
C15_PriceFailureIsolation ==
    (call.fn = "TwoPasses" /\ result.done /\ ResolutionFails(call.markets, call.first)) =>
        LET first == result.value.first
            second == result.value.second
            by == PricedBy("ETH", "USD", call.markets, call.second.ticker, call.second.alts)
            p == Quoted(PricingTicker(by, call.second.ticker, call.second.alts))
        IN  /\ ~Has(first.record.balances, "ETH")
            /\ DOMAIN first.record.balances = DOMAIN call.first.total \ {"ETH"}
            /\ \A c \in DOMAIN first.record.balances :
                   /\ first.record.balances[c].amount = call.first.total[c]
                   /\ first.record.balances[c].type = "spot"
            /\ first.record.total = ValueOfOthers(call.first.total)
            /\ Has(first.balanceCache, "ETH")
            /\ first.balanceCache["ETH"] = call.first.total["ETH"]
            /\ (~Has(call.second.total, "ETH") /\ by >= 0) =>
                   /\ Has(second.record.balances, "ETH")
                   /\ second.record.balances["ETH"] =
                          SpotAsset("ETH", call.first.total["ETH"],
                                    Mul(call.first.total["ETH"], p))

\* ETH is listed but its ticker throws and the alternates fail in the first
\* pass; the second pass, whose fetch failed, values the cached 2 ETH at 5000
C15_Witness ==
    /\ call.fn = "TwoPasses" /\ result.done
    /\ call.markets = {"BTC/USD", "ETH/USD"}
    /\ call.first.ticker.throws /\ ResolutionFails(call.markets, call.first)
    /\ call.second.total = EmptyObj
    /\ DOMAIN result.value.first.record.balances = {"USD", "BTC"}
    /\ result.value.first.record.total = Num(30100, 1)
    /\ result.value.first.balanceCache["ETH"] = Num(2, 1)
    /\ Has(result.value.second.record.balances, "ETH")
    /\ result.value.second.record.balances["ETH"].baseValue = Num(5000, 1)

\* the assets of type futures in a published mapping
FuturesKeys(assets) == {k \in DOMAIN assets : assets[k].type = "futures"}

(* C16 as stated.  Under SpecCalls: in a pass of either function of the    *)
(* current revision on an exchange with fetchPositions and defaultType     *)
(* swap, when fetchPositions throws, or the ticker fetch of some position  *)
(* throws, the balances written hold no asset of type futures, hold the    *)
(* spot asset of the cached valuation currency, and total is the sum of    *)
(* the assets written.                                                     *)
C16_PositionFailure ==
    (/\ call.fn = "Positions" /\ result.done
     /\ call.revision = "current"
     /\ call.hasFetchPositions /\ call.defaultType = "swap"
     /\ \/ call.positions.throws
        \/ \E i \in 1..Len(call.positions.list) : call.positions.list[i].tickerThrows) =>
        /\ FuturesKeys(result.value.balances) = {}
        /\ Has(result.value.balances, "USD")
        /\ result.value.balances["USD"] = SpotAsset("USD", Num(100, 1), Num(100, 1))
        /\ result.value.total = Total(result.value.balances)

(* C17.  Under SpecFair: when the spot-product fetch or the earn fetch of  *)
(* a fund account fails, the step that ends the fund part leaves the       *)
(* group's balances and total as they were, writes numbers to spotBalance  *)
(* and earnBalance, leaves the loop running at the call of callback()      *)
(* and not in a catch, and the callback of that pass follows.              *)
C17_SupplementaryIsolation ==
    /\ [][\A c \in Conns :
            (pc[c] = "fund" /\ pc'[c] # "fund" /\ passObs'[c].fundFailed) =>
                LET g == Account(c).n
                IN  /\ pc'[c] = "notify" /\ loop'[c] = loop[c] /\ subErr'[c] = subErr[c]
                    /\ balances'[g].balances = balances[g].balances
                    /\ balances'[g].total = balances[g].total
                    /\ balances'[g].spotBalance.k = "num"
                    /\ balances'[g].earnBalance.k = "num"]_vars
    /\ \A c \in Conns :
          (pc[c] = "notify" /\ passObs[c].fundFailed) ~> (callbacks[c] = 1)

\* both fund fetches of A failed after a pass that published assets worth
\* more than nothing: A is at the call of callback()
C17_Witness ==
    /\ pc["A"] = "notify" /\ passObs["A"].fundFailed
    /\ balances["Main Fund"].spotBalance = Zero
    /\ balances["Main Fund"].earnBalance = Zero
    /\ balances["Main Fund"].balances # EmptyObj
    /\ balances["Main Fund"].total # Zero

\* ccxt has no class for the exchange identifier of connection c
UnknownExchange(c) == Account(c).e \notin CcxtClasses

FirstOf(g) ==
    LET ok == {i \in 1..Len(StartOrder) :
                  Account(StartOrder[i]).n = g /\ ~UnknownExchange(StartOrder[i])}
    IN  StartOrder[CHOOSE i \in ok : \A j \in ok : i <= j]

(* C19.  Under Spec: the record of a group exists once a connection of the *)
(* group has started its loop and not before; its baseCurrency is the one  *)
(* declared by the first connection of the group that started; no step     *)
(* removes a group name or changes the baseCurrency of a record, also not  *)
(* the start of a later connection of the group that declares another one. *)
C19_GroupRecordLifecycle ==
    /\ [](\A g \in GroupNames :
            /\ Has(balances, g) <=> \E c \in Conns : Account(c).n = g /\ loop[c] # "none"
            /\ Has(balances, g) =>
                  /\ balances[g].baseCurrency = Account(FirstOf(g)).baseCurrency
                  /\ balances[g].exchange = g)
    /\ [][\A g \in DOMAIN balances :
            /\ g \in DOMAIN balances'
            /\ balances'[g].baseCurrency = balances[g].baseCurrency]_vars

\* B, which declares EUR, started and wrote a pass into the record A created with USD
C19_Witness ==
    /\ Account("B").baseCurrency = "EUR" /\ loop["B"] = "monitor" /\ wrote["B"]
    /\ wrote["A"]
    /\ balances["Main Fund"].baseCurrency = "USD"

\* every network call of connection c returns or throws, and its exchange keeps pushing
Responds(c) ==
    []<>(pc[c] # "poll") /\ []<>(pc[c] # "fund") /\ []<>(pc[c] # "watch")

\* connection c keeps iterating: again and again it awaits its loop's call and leaves it
Iterates(c) ==
    []<>(pc[c] = AwaitOf(loop[c])) /\ []<>(pc[c] \in {"notify", "sleep"})

(* C20.  Under SpecIndependent, where any network call of any connection   *)
(* may never return: a connection whose own calls return keeps iterating   *)
(* its loop whatever the other connections' calls do, and each pass it     *)
(* completes is followed by its callback.                                  *)
C20_LoopIndependence ==
    \A c \in Conns : ~UnknownExchange(c) =>
        /\ Responds(c) => Iterates(c)
        /\ (pc[c] = "notify") ~> (callbacks[c] = 1)

\* A still awaits its first push; B completed a pass and called the callback
C20_Witness ==
    /\ pc["A"] = "watch" /\ ~wrote["A"] /\ callbacks["A"] = 0
    /\ wrote["B"] /\ callbacks["B"] = 1 /\ pc["B"] = "sleep"

\* the exchange a Quote call is answered by: 0 the primary, 2 the second alternate
AnsweredBy(c) == IF c.markets # {} THEN 0 ELSE 2

\* the quotes of the exchange that answers a Quote call
AnsweringQuotes(c) == IF c.markets # {} THEN c.quotes ELSE c.alts[2].quotes

\* the price of one unit of currency x in currency y at the rates of the day
TruePrice(x, y) == Mul(UsdRate(x), Recip(UsdRate(y)))

(* C21 as stated.  Under SpecCalls: when the exchange that answers quotes  *)
(* every market at the rates of the day, a published spot asset of a       *)
(* currency other than the valuation currency has baseValue = amount *     *)
(* (price of the currency in the valuation currency), also when the        *)
(* matched pair is a USD or USDT pair and the valuation currency is EUR.   *)
C21_ValuedInValuationCurrency ==
    (/\ call.fn = "Quote" /\ result.done
     /\ AnsweringQuotes(call) = RateQuotes(call.currency, call.baseCurrency)
     /\ result.value.entry.publish) =>
        result.value.entry.asset.baseValue =
            Mul(call.amount, TruePrice(call.currency, call.baseCurrency))

\* the candidate symbols of currency c in valuation currency b, in the order of the claim
CandidateOrder(c, b) ==
    <<c \o "/" \o b, b \o "/" \o c, c \o "/USD", "USD/" \o c, c \o "/USDT", "USDT/" \o c>>

\* the position in that order of the first candidate an exchange lists, 0 when it lists none
FirstListed(markets, c, b) ==
    LET hits == {i \in 1..6 : CandidateOrder(c, b)[i] \in markets}
    IN  IF hits = {} THEN 0 ELSE CHOOSE i \in hits : \A j \in hits : i <= j

\* the symbol at that position
ExpectedMarket(markets, c, b) ==
    IF FirstListed(markets, c, b) = 0 THEN "null"
    ELSE CandidateOrder(c, b)[FirstListed(markets, c, b)]

\* the price OwnQuotes gives through the candidate at each position, inverted ones inverted
OwnPrice == <<Num(3, 1), Num(5, 1), Num(7, 1), Num(11, 1), Num(13, 1), Num(17, 1)>>

(* C24.  Under SpecCalls: on the primary exchange and on each alternate    *)
(* the symbol the ticker is fetched for is the first candidate the         *)
(* exchange lists, in the order currency/valuation, valuation/currency,    *)
(* currency/USD, USD/currency, currency/USDT, USDT/currency; it is a USD   *)
(* or USDT pair only when the exchange lists neither direct pair; and ETH  *)
(* is valued at the price quoted for that symbol and no other.             *)
C24_CandidateOrder ==
    (call.fn = "Quote" /\ result.done) =>
        LET c == call.currency
            b == call.baseCurrency
            direct == {CandidateOrder(c, b)[1], CandidateOrder(c, b)[2]}
            used == IF AnsweredBy(call) = 0 THEN call.markets ELSE call.alts[2].markets
        IN  /\ result.value.marketId = ExpectedMarket(call.markets, c, b)
            /\ \A i \in 1..3 :
                   result.value.altMarketId[i] = ExpectedMarket(call.alts[i].markets, c, b)
            /\ result.value.marketId \notin direct \cup {"null"} =>
                   call.markets \cap direct = {}
            /\ (c = "ETH" /\ AnsweringQuotes(call) = OwnQuotes(c, b)) =>
                   /\ result.value.entry.publish
                   /\ result.value.entry.asset.baseValue =
                          Mul(call.amount, OwnPrice[FirstListed(used, c, b)])

\* the exchange lists EUR/ETH, USD/ETH and ETH/USDT: ETH is priced through EUR/ETH
C24_Witness ==
    /\ call.fn = "Quote" /\ result.done
    /\ call.currency = "ETH" /\ call.baseCurrency = "EUR"
    /\ call.markets = {"EUR/ETH", "USD/ETH", "ETH/USDT"}
    /\ call.quotes = OwnQuotes("ETH", "EUR")
    /\ result.value.marketId = "EUR/ETH"
    /\ result.value.entry.asset.baseValue = Num(10, 1)

\* alternate x answers with a defined, non-zero price for currency c
Usable(x, c, b) ==
    /\ ~x.throws /\ x.markets \cap CandidateSymbols(c, b) # {} /\ ~x.ticker.throws
    /\ Quoted(x.ticker).k = "num" /\ Quoted(x.ticker).n > 0

\* the price of c that alternate x supplies, its candidates all direct or all inverted
UsablePrice(x, c, b) ==
    LET p == Quoted(x.ticker)
    IN  IF x.markets \cap CandidateSymbols(c, b) \subseteq InvertedSymbols(c, b)
        THEN Num(p.d, p.n) ELSE p

(* C25 as stated.  Under SpecCalls: when the primary exchange cannot price *)
(* the currency (no candidate pair, or its ticker throws), the currency is *)
(* valued at the price of the earliest of binance, kraken, coinbasepro     *)
(* that supplies a defined non-zero price, whenever one of them does; it   *)
(* is dropped when each of the three throws or lists no candidate pair.    *)
C25_AlternateDiscovery ==
    (/\ call.fn = "SpotEntry" /\ result.done
     /\ \/ call.markets \cap CandidateSymbols(call.currency, call.baseCurrency) = {}
        \/ call.ticker.throws) =>
        LET c == call.currency
            b == call.baseCurrency
            usable == {i \in 1..3 : Usable(call.alts[i], c, b)}
            first == CHOOSE i \in usable : \A j \in usable : i <= j
        IN  /\ usable # {} =>
                   /\ result.value.publish
                   /\ result.value.asset.baseValue =
                          Mul(call.amount, UsablePrice(call.alts[first], c, b))
            /\ PricedBy(c, b, {}, TickerThrows, call.alts) = -1 => ~result.value.publish

\* the symbol the answering exchange of a returned Quote call was asked for
AnsweringMarket ==
    IF AnsweredBy(call) = 0 THEN result.value.marketId ELSE result.value.altMarketId[2]

(* C26 as stated.  Under SpecCalls: the price of the matched candidate is  *)
(* used as quoted when the candidate is currency/valuation, currency/USD   *)
(* or currency/USDT and inverted when it is valuation/currency,            *)
(* USD/currency or USDT/currency, for held ETH and for held USD and USDT   *)
(* in a EUR group alike.                                                   *)
C26_InversionRule ==
    (call.fn = "Quote" /\ result.done) =>
        LET order == CandidateOrder(call.currency, call.baseCurrency)
            q == AnsweringQuotes(call)[AnsweringMarket].last
        IN  /\ result.value.entry.publish
            /\ result.value.entry.asset.baseValue =
                   Mul(call.amount, IF AnsweringMarket \in {order[1], order[3], order[5]}
                                    THEN q ELSE Num(q.d, q.n))

\* connection d has written balances and total of a pass and not yet the fund
\* fields, which hold what an earlier pass wrote
HalfWritten(d) ==
    /\ pc[d] = "fund"
    /\ balances[Account(d).n].spotBalance # Undefined

(* C22 as stated.  Under Spec: whenever a connection calls the callback,   *)
(* which hands the Global Snapshot to the sinks, no group record holds     *)
(* the balances and total of a pass together with the spotBalance and      *)
(* earnBalance of an earlier pass.                                         *)
C22_WholeRecordReplacement ==
    [][\A r \in Conns :
          callbacks'[r] = callbacks[r] + 1 => \A d \in Conns : ~HalfWritten(d)]_vars

(* C23 as stated.  Under SpecCalls: after the Telegram sink has taken the  *)
(* Global Snapshot and prepared its messages from it, the Global Snapshot  *)
(* holds the same group names with the same records, field for field, as   *)
(* before.                                                                 *)
C23_SinksAreReaders ==
    (call.fn = "Display" /\ result.done) => result.value.snapshot = call.balances

\* the symbols of the positions a tick's fetchPositions returned
PositionSymbols(tick) ==
    IF tick.positions.throws THEN {}
    ELSE {tick.positions.list[i].symbol : i \in 1..Len(tick.positions.list)}

(* C27.  Under SpecCalls, over two consecutive passes of one connection    *)
(* that fetches positions: after each pass the keys of balances are among  *)
(* the currencies cached after that pass and the symbols of the positions  *)
(* fetched in it; and an asset the first pass published is absent after    *)
(* the second when its currency left the cache, when its price resolution  *)
(* fails, when it is worth less than 0.01, or when its position was not    *)
(* returned again.                                                         *)
C27_FullReplacement ==
    (call.fn = "TwoSwapPasses" /\ result.done) =>
        LET first == result.value.first
            second == result.value.second
            was == DOMAIN first.record.balances
            now == DOMAIN second.record.balances
        IN  /\ was \subseteq DOMAIN first.balanceCache \cup PositionSymbols(call.first)
            /\ now \subseteq DOMAIN second.balanceCache \cup PositionSymbols(call.second)
            /\ \A k \in was :
                   /\ (k \in Currencies /\ ~Has(second.balanceCache, k)) => k \notin now
                   /\ (k \notin Currencies /\ k \notin PositionSymbols(call.second))
                          => k \notin now
            /\ ResolutionFails(call.markets, call.second) => "ETH" \notin now
            /\ (Has(call.second.total, "USD") /\ call.second.total["USD"] = Num(1, 200))
                   => "USD" \notin now
            /\ second.record.total = Total(second.record.balances)

\* the first pass published USD, ETH, BTC and the ETH position; in the second
\* USD is dust, BTC left the cache, ETH has no price and the only position is BTC's
C27_Witness ==
    /\ call.fn = "TwoSwapPasses" /\ result.done
    /\ DOMAIN result.value.first.record.balances = {"USD", "ETH", "BTC", PerpETH}
    /\ call.second.total = [USD |-> Num(1, 200), BTC |-> Zero]
    /\ ResolutionFails(call.markets, call.second)
    /\ DOMAIN result.value.second.balanceCache = {"USD", "ETH"}
    /\ DOMAIN result.value.second.record.balances = {PerpBTC}

(* C28.  Under SpecPass: every entry of the cache is a number with         *)
(* |amount| > 1e-6; after a pass, a currency its snapshot reports with     *)
(* |amount| > 1e-6 is cached at that amount, one it reports with 0 or      *)
(* |amount| <= 1e-6 is in neither the cache nor the balances written by    *)
(* the pass, and one it does not report is cached exactly as before, so    *)
(* that each entry is the amount of the last snapshot that reported it.    *)
C28_CacheInvariant ==
    /\ [](\A k \in DOMAIN pCache : pCache[k].k = "num" /\ ~AtMostMicro(pCache[k]))
    /\ [][\A k \in Currencies :
            IF k \in DOMAIN pSeen'
            THEN IF AtMostMicro(pSeen'[k])
                 THEN k \notin DOMAIN pCache' /\ k \notin DOMAIN pGroup'.balances
                 ELSE k \in DOMAIN pCache' /\ pCache'[k] = pSeen'[k]
            ELSE /\ k \in DOMAIN pCache' <=> k \in DOMAIN pCache
                 /\ k \in DOMAIN pCache => pCache'[k] = pCache[k]]_vars

\* USD, cached at 100 by an earlier snapshot, was reported at 0.005 by the last
\* one and is cached at 0.005; BTC, reported at 1e-6, is gone; ETH, not reported,
\* is still cached
C28_Witness ==
    /\ pSeen = [USD |-> Num(1, 200), BTC |-> Num(1, 1000000)]
    /\ "BTC" \in pDeleted
    /\ pCache = [USD |-> Num(1, 200), ETH |-> Num(2, 1)]
    /\ ~Has(pGroup.balances, "BTC")

\* the suspension points of each loop
LoopStates(loopName) ==
    IF loopName = "watchBalance" THEN {"watch", "fund", "notify"}
    ELSE IF loopName = "monitor" THEN {"poll", "fund", "notify", "sleep"}
    ELSE {}

FundConnections(g) == {c \in Conns : Account(c).n = g /\ IsFundAccount(Account(c))}

RestBalances(g) == rest.objs[rest.balancesObj[g].balances]

\* the group of the connection whose pass has just written its total and called back
Completed(g) ==
    /\ rest.last.outcome = "completed"
    /\ RestAccounts[rest.last.conn].groupName = g

(* C31.  Under SpecRest, in every state reached by the step in which a     *)
(* pass completes (it wrote group.total and called callback()), the total  *)
(* of that pass's group equals the sum of baseValue over the assets of the *)
(* group's balances, whether or not another pass of the same connection    *)
(* is in flight.                                                           *)
C31_RestTotalConsistency ==
    \A g \in DOMAIN rest.balancesObj :
        Completed(g) => rest.balancesObj[g].total = Total(RestBalances(g))

\* a ticker fetch of the spot loop threw and the pass ended in the catch of the interval
TickerEndedPass == rest.last.outcome = "rejected"

(* C32.  Under SpecRest, no pass is ended by a ticker fetch that throws:   *)
(* the only way a pass ends is by writing the total and calling            *)
(* callback().                                                             *)
C32_RestPriceFailureIsolation == ~TickerEndedPass

\* the accounts listed after account i
ListedAfter(i) == {j \in RestConns : j > i}

\* account j has its group record, and its interval unless its own start failed
StartedREST(j) ==
    /\ Has(rest.balancesObj, RestAccounts[j].groupName)
    /\ j \in rest.polling \/ j \in rest.failed

(* C33.  Under SpecRest, once monitorBalancesREST is over (it returned or  *)
(* its promise was rejected), every account with a known exchange that is  *)
(* listed after an account whose start failed has its group record and,    *)
(* unless its own loadMarkets threw, its polling interval.                 *)
C33_RestStartIsolation ==
    rest.startup \in {"done", "rejected"} =>
        \A i \in rest.failed : \A j \in ListedAfter(i) :
            RestAccounts[j].e \in CcxtClasses => StartedREST(j)

\* the operation of thread t is executing
Executing(t) == \E op \in tg.inFlight : op.by = t

(* C34.  Under SpecTg (initialization, the scheduler chain and the retry   *)
(* timers), in every state at most one enqueued edit operation is          *)
(* executing, and an operation that has just started was the one enqueued  *)
(* first among those that had not started (its rank is 0).                 *)
C34_EditQueueSerialFifo ==
    /\ Cardinality(tg.inFlight) <= 1
    /\ tg.event.started \in {-1, 0}

\* an operation has just started while two threads wait for theirs behind it
C34_Witness ==
    /\ tg.event.started = 0
    /\ Len(tg.editQueue) = 2

\* thread t awaits the promise of enqueueEdit
AwaitsEdit(t) == tg.threads[t].pc = "edit"

\* thread t stops awaiting its edit only in a step that ends the execution of its operation
SettledByOwnOperation(t) ==
    AwaitsEdit(t) /\ tg'.threads[t].pc # "edit" =>
        \E op \in tg.inFlight : op.by = t /\ op \notin tg'.inFlight

\* an operation is never in the queue and executing, and never twice in the queue
ExecutedOnce ==
    \A t \in TgThreads :
        Cardinality({k \in 1..Len(tg.editQueue) : tg.editQueue[k].by = t})
            + Cardinality({op \in tg.inFlight : op.by = t})
        = IF AwaitsEdit(t) THEN 1 ELSE 0

(* C35.  Under SpecTgFair (every executing edit eventually resolves or     *)
(* rejects), a thread that awaits the promise of enqueueEdit eventually    *)
(* goes on, whether its edit resolved or rejected; its operation is in the *)
(* queue or executing exactly once while it waits, and the promise settles *)
(* in the step that ends the execution of that operation.                  *)
(* isProcessingQueue is set exactly while an operation is executing, and   *)
(* whenever it is set it is eventually false again.                        *)
C35_EditQueueLiveness ==
    /\ \A t \in TgThreads : AwaitsEdit(t) ~> ~AwaitsEdit(t)
    /\ tg.isProcessingQueue ~> ~tg.isProcessingQueue
    /\ [](tg.isProcessingQueue <=> tg.inFlight # {})
    /\ []ExecutedOnce
    /\ [][\A t \in TgThreads : SettledByOwnOperation(t)]_vars

\* after a rejected edit, an operation has just started while two threads await theirs
C35_Witness ==
    /\ tg.event.started = 0
    /\ tg.budget.rateLimits < MaxFairRateLimits
    /\ Cardinality({t \in TgThreads : AwaitsEdit(t)}) >= 2

\* thread t is inside the try of updateMessages
InRun(t) == \E k \in 1..Len(tg.threads[t].ret) : tg.threads[t].ret[k] = "runFinally"

\* what an edit or a send would change
Edited == <<tg.editQueue, tg.inFlight, tg.adminMessageId, tg.userMessages, tg.objs,
            tg.lastAdminMessage, tg.lastUserMessages, tg.updateInProgress>>

(* C36.  Under SpecTgCalled (the scheduler chain and further callers of    *)
(* updateMessages), at most one call of updateMessages is inside its try   *)
(* at any time; updateInProgress is set only while one is (so it is reset  *)
(* after every run, whatever the run threw); and a call that found the     *)
(* flag set returned without enqueueing, sending or storing anything.      *)
C36_NoOverlappingUpdate ==
    /\ [](Cardinality({t \in TgThreads : InRun(t)}) <= 1)
    /\ [](tg.updateInProgress => \E t \in TgThreads : InRun(t))
    /\ [][tg'.event.skipped => Edited' = Edited]_vars

\* a call of updateMessages has just returned at once because another run is in progress
C36_Witness ==
    /\ tg.event.skipped
    /\ \E t \in TgThreads : InRun(t) /\ tg.threads[t].pc = "edit"

\* the stored messageInfo of the user
UserMessage == tg.objs[tg.userMessages]

(* C37.  Under SpecTgFailing, in every state reached by the step in which  *)
(* handleEditFailure returns after it sent a replacement message to the    *)
(* user (the failures had reached MAX_FAILURES), the stored messageId of   *)
(* the user is the id of the replacement and the failureCount is 0.        *)
C37_ReplacementIsStored ==
    tg.event.replacement # 0 =>
        /\ UserMessage.messageId = tg.event.replacement
        /\ UserMessage.failureCount = 0

\* the aligned period of a time
Period(time) == time \div Frequency

\* no two rows carry timestamps of the same period
OneRowPerPeriod ==
    \A i, j \in 1..Len(stream.rows) :
        i < j => Period(stream.rows[i].timestamp) < Period(stream.rows[j].timestamp)

\* no row was written by the first invocation after start
FirstNeverWrites == \A i \in 1..Len(stream.rows) : ~stream.rows[i].first

(* C38.  Under SpecStream (invocations of writeBalances overlapping at     *)
(* their awaits), in every state the rows of the sheet carry timestamps of *)
(* strictly increasing aligned periods (at most one row per period, none   *)
(* before the next multiple of the frequency after a row), and no row was  *)
(* written by the first invocation after start.                            *)
C38_OneRowPerBoundary == OneRowPerPeriod /\ FirstNeverWrites

\* the sinks among wanted, in the order of updateAndRender
InOrder(wanted) == SelectSeq(Sinks, LAMBDA sink : sink \in wanted)

UpdateAndRenderCalled == call.fn = "UpdateAndRender" /\ result.done

(* C39.  Under SpecCalls, for every call of updateAndRender, whichever     *)
(* sinks are enabled and whichever of them throw synchronously: every      *)
(* enabled sink was invoked, in order, each throwing one was logged, no    *)
(* exception left updateAndRender, and the connection goes on in the loop  *)
(* it was in (a subscribed connection is not put into polling).            *)
C39_SinkIsolation ==
    UpdateAndRenderCalled =>
        /\ result.value.invoked = InOrder(call.enabled)
        /\ result.value.logged = InOrder(call.enabled \cap call.throwing)
        /\ ~result.value.escaped
        /\ result.value.loop = call.loop

\* the table sink threw in the callback of a subscribed connection, all sinks enabled
C39_Witness ==
    /\ UpdateAndRenderCalled
    /\ call.enabled = SinkNames
    /\ "table" \in call.throwing
    /\ call.loop = "watchBalance"
    /\ Len(result.value.invoked) = 3
====
